---- MODULE Spec2Model ----
(***************************************************************************)
(* A model of the winewarden supervisor: the policy engine                 *)
(* (crates/policy-engine), the seccomp notification handler and the        *)
(* supervisor loop of Monitor::run (crates/monitor).                       *)
(*                                                                         *)
(* Paths are sequences of components, as std::path::Path::components       *)
(* yields them; the root directory is the component "/".  Strings that the *)
(* code inspects character by character (process names, patterns) are      *)
(* sequences of one-character strings.  An Option is a sequence of length  *)
(* 0 (None) or 1 (Some).                                                   *)
(***************************************************************************)
EXTENDS Integers, Sequences, FiniteSets, TLC

VARIABLES
    \* ---- PolicyEngine (policy-engine/src/lib.rs) ----
    sacred_zones,       \* PolicyEngine.sacred_zones: Vec<SacredZone>
    config,             \* PolicyEngine.config: the network and process sections
    context,            \* PolicyContext {prefix_root, trust_tier}
    behavior_profile,   \* PolicyEngine.behavior_profile
    process_tracker,    \* PolicyEngine.process_tracker
    call,               \* the last operation a client invoked on the engine, with its argument
    decision,           \* the PolicyDecision that operation returned (Option)
    \* ---- Monitor::run (monitor/src/lib.rs) ----
    request,            \* RunRequest {no_run, live_monitor, event_log, trust_tier} and
                        \* whether WINEWARDEN_REDIRECT_MAP parses
    pc,                 \* where Monitor::run stands
    tasks,              \* the spawned child and one descendant of it: state, pending notification
    boot,               \* the pre_exec steps the child has completed, in order, then
                        \* "exec", or "failed" where a step or exec failed
    notify_fd,          \* who holds the seccomp notify descriptor
    pending,            \* kernel: ids of notifications not yet received by the supervisor
    next_id,            \* kernel: id of the next notification
    req,                \* handle_notification: id and task of the SeccompNotif received (Option)
    locals,             \* handle_notification: decision_action, path_redirect, event_data
                        \* and resp as its last run left them
    received,           \* ids the receive ioctl has returned, in order
    responses,          \* the SeccompNotifResp handed to the send ioctl, in order
    evaluated,          \* Monitor::run: Vec<ReportEvent>
    aux_budget,         \* events the auxiliary watchers and the replay log may still produce
    result,             \* what Monitor::run returned: Ok(report) or Err
    \* ---- CopyOnWrite (monitor/src/path_redirect.rs) ----
    copied,             \* CopyOnWrite.copied: original path -> materialized path
    \* ---- descriptor tables (monitor/src/lib.rs, spawn_process and run) ----
    fds,                \* the socketpair ends and the notify descriptor that the
                        \* parent and the child process hold open, and the
                        \* descriptors in the message queued on the socketpair
    \* ---- TrustScoreHistory (policy-engine/src/trust/scoring.rs) ----
    history,            \* TrustScoreHistory {entries, max_size}
    \* ---- winewarden-daemon (ipc.rs, main.rs) ----
    daemon,             \* the daemon: whether serve is running, and for each
                        \* connection served the request and the line written back
    \* ---- DnsCapture (net-compat/src/dns.rs) ----
    dns,                \* DnsCapture {queries, max_entries}, each observation with its
                        \* last_seen instant, and the reading of the monotonic clock
    \* ---- TrustStore (winewarden-core/src/store.rs) ----
    trust_store,        \* the trust database on disk: sha256 -> TrustRecord {tier, runs}
    \* ---- parse_packet (net-compat/src/dns_parser.rs) ----
    parser              \* the packet being parsed and the locals of parse_packet and
                        \* parse_name: offset, pos, jumped, jump_offset, name_parts

evars == <<sacred_zones, config, context, behavior_profile, process_tracker,
           call, decision>>

svars == <<request, pc, tasks, boot, notify_fd, pending, next_id, req, locals,
           received, responses, evaluated, aux_budget, result>>

cowvars == <<copied>>

hvars == <<fds, history, daemon, dns, trust_store, parser>>

vars == <<evars, svars, cowvars, hvars>>

None == <<>>
Some(x) == <<x>>
IsSome(o) == Len(o) = 1
Unwrap(o) == o[1]

\* ------------------------------------------------------------------------
\* Bounds of the model
\* ------------------------------------------------------------------------
MaxDepth == 2       \* components below the root in a candidate path
MaxZones == 2       \* sacred zones in a configuration
MaxEvals == 3       \* PolicyEngine::evaluate calls in one session
MaxNotifs == 2      \* notifications the kernel raises in one session
MaxAux == 1         \* events the watchers and the replay log produce in one session
MaxNameLen == 3     \* characters in a process name given to matches_pattern
MaxPatternLen == 3  \* characters in a pattern given to matches_pattern
MaxMappings == 3    \* mappings given to PathMapper::with_mappings
MaxRecords == 2     \* events a client records one by one on a behavior profile

\* ------------------------------------------------------------------------
\* Paths
\* ------------------------------------------------------------------------
RootDir == "/"
PathNames == {"a", "b"}

RECURSIVE SeqsUpTo(_, _)
SeqsUpTo(S, n) ==
    IF n = 0 THEN {<<>>}
    ELSE LET shorter == SeqsUpTo(S, n - 1)
         IN  shorter \cup {Append(s, x) : s \in {t \in shorter : Len(t) = n - 1}, x \in S}

\* Absolute paths "/", "/a", "/a/b", ... and relative ones "a", "a/b", ...
CandidatePaths ==
    {<<RootDir>> \o s : s \in SeqsUpTo(PathNames, MaxDepth)}
        \cup (SeqsUpTo(PathNames, MaxDepth) \ {<<>>})

\* Path::starts_with: component-wise prefix
starts_with(path, base) ==
    /\ Len(base) <= Len(path)
    /\ SubSeq(path, 1, Len(base)) = base

\* ------------------------------------------------------------------------
\* Decisions (policy-engine/src/decision.rs)
\* ------------------------------------------------------------------------
Allow == [tag |-> "Allow", to |-> None]
Deny == [tag |-> "Deny", to |-> None]
Redirect(p) == [tag |-> "Redirect", to |-> Some(p)]
Virtualize(p) == [tag |-> "Virtualize", to |-> Some(p)]

PolicyDecision(a, r, z, s) ==
    [action |-> a, reason |-> r, zone_label |-> z, systemic_risk |-> s]

\* zones::redirects::fallback_redirect (its file is not part of the sources)
fallback_redirect == <<RootDir, "fallback">>

\* ------------------------------------------------------------------------
\* Filesystem rules (policy-engine/src/rules/filesystem.rs)
\* ------------------------------------------------------------------------
\* SacredZone::matches
matches(zone, candidate) == starts_with(candidate, zone.path)

unwrap_or_else(o, d) == IF IsSome(o) THEN Unwrap(o) ELSE d

apply_zone_rule(zone) ==
    CASE zone.action = "Allow" ->
            PolicyDecision(Allow, <<"Access allowed: ", zone.label>>,
                           Some(zone.label), FALSE)
      [] zone.action = "Deny" ->
            PolicyDecision(Deny, <<"Access denied: ", zone.label>>,
                           Some(zone.label), TRUE)
      [] zone.action = "Redirect" ->
            PolicyDecision(Redirect(unwrap_or_else(zone.redirect_to, fallback_redirect)),
                           <<"Access redirected: ", zone.label>>,
                           Some(zone.label), TRUE)
      [] zone.action = "Virtualize" ->
            PolicyDecision(Virtualize(unwrap_or_else(zone.redirect_to, fallback_redirect)),
                           <<"Access virtualized: ", zone.label>>,
                           Some(zone.label), TRUE)

\* the decision when no zone matches
prefix_boundary(path, prefix_root) ==
    IF ~starts_with(path, prefix_root) THEN
        PolicyDecision(Deny, <<"Access outside prefix blocked", "">>,
                       Some("Prefix boundary"), TRUE)
    ELSE
        PolicyDecision(Allow, <<"Access within prefix allowed", "">>,
                       None, FALSE)

\* a scan in which the last matching zone decides
scan_zones_last_match(path, prefix_root, zones, i) ==
    LET hits == {j \in i..Len(zones) : matches(zones[j], path)}
    IN  IF hits = {} THEN prefix_boundary(path, prefix_root)
        ELSE apply_zone_rule(zones[CHOOSE j \in hits : \A k \in hits : k <= j])

\* an evaluation without the prefix boundary
evaluate_path_no_boundary(path, prefix_root, zones) ==
    scan_zones_last_match(path, path, zones, 1)

\* the `for zone in zones` loop of evaluate_path, from index i on
RECURSIVE scan_zones(_, _, _, _)
scan_zones(path, prefix_root, zones, i) ==
    IF i > Len(zones) THEN prefix_boundary(path, prefix_root)
    ELSE IF matches(zones[i], path) THEN apply_zone_rule(zones[i])
    ELSE scan_zones(path, prefix_root, zones, i + 1)

evaluate_path(path, prefix_root, zones) == scan_zones(path, prefix_root, zones, 1)

\* ------------------------------------------------------------------------
\* Network rules (policy-engine/src/rules/network.rs)
\* ------------------------------------------------------------------------
\* a network rule that blocks whatever the tier
evaluate_network_any_tier(cfg, trust_tier) ==
    IF cfg.network.block_on_malicious
    THEN PolicyDecision(Deny, <<"Network denied due to high risk", "">>,
                        Some("Network"), TRUE)
    ELSE PolicyDecision(Allow, <<"Network allowed (permissive mode)", "">>,
                        Some("Network"), FALSE)

evaluate_network(cfg, trust_tier) ==
    LET reason == IF cfg.network.mode = "Observe"
                  THEN "Network observed (no interference)"
                  ELSE "Network allowed (permissive mode)"
        systemic_risk == trust_tier = "Red" /\ cfg.network.block_on_malicious
    IN  PolicyDecision(IF systemic_risk THEN Deny ELSE Allow,
                       IF systemic_risk THEN <<"Network denied due to high risk", "">>
                                        ELSE <<reason, "">>,
                       Some("Network"), systemic_risk)

\* ------------------------------------------------------------------------
\* Behavior profile (policy-engine/src/trust/scoring.rs)
\* ------------------------------------------------------------------------
NewBehaviorProfile ==
    [sensitive_path_attempts |-> 0, unique_destinations |-> 0,
     dns_query_count |-> 0, child_process_count |-> 0,
     file_modifications |-> 0, denied_attempts |-> 0,
     suspicious_patterns |-> <<>>]

record_outbound_connection(p, host) ==
    LET n == p.unique_destinations + 1
    IN  [p EXCEPT !.unique_destinations = n,
                  !.suspicious_patterns =
                      IF n > 10 THEN Append(@, <<"Many connections: ", host, "">>)
                      ELSE @]

record_child_process(p, process) ==
    LET n == p.child_process_count + 1
    IN  [p EXCEPT !.child_process_count = n,
                  !.suspicious_patterns =
                      IF n > 20 THEN Append(@, <<"Process spawning: ", process, "">>)
                      ELSE @]

record_denied_attempt_latest_first(p, reason) ==
    [p EXCEPT !.denied_attempts = @ + 1,
              !.suspicious_patterns = <<<<"Blocked: ", reason[1], reason[2]>>>> \o @]

record_denied_attempt(p, reason) ==
    [p EXCEPT !.denied_attempts = @ + 1,
              !.suspicious_patterns = Append(@, <<"Blocked: ", reason[1], reason[2]>>)]

record_file_modification(p, path) ==
    [p EXCEPT !.file_modifications = @ + 1]

\* Records a sensitive path access attempt
record_sensitive_path(p, path) ==
    [p EXCEPT !.sensitive_path_attempts = @ + 1,
              !.suspicious_patterns = Append(@, <<"Accessed: ", path, "">>)]

\* a profile is suspicious only for more than five denials
is_suspicious_denials_only(p) == p.denied_attempts > 5

\* BehaviorProfile::is_suspicious
is_suspicious(p) ==
    \/ p.sensitive_path_attempts > 0
    \/ p.denied_attempts > 5
    \/ p.suspicious_patterns # <<>>

\* ------------------------------------------------------------------------
\* Trust scoring (policy-engine/src/trust/scoring.rs)
\* ------------------------------------------------------------------------
\* An f32 of the scorer is held as an exact fraction num/den with den > 0.
\* For the counter values of this model the f32 operations of the code and
\* the exact ones truncate to the same i32.
Rat(n, d) == [num |-> n, den |-> d]

rat_add(a, b) == Rat(a.num * b.den + b.num * a.den, a.den * b.den)

rat_mul(a, b) == Rat(a.num * b.num, a.den * b.den)

\* `x as i32` of an f32: truncation towards zero
as_i32(x) ==
    IF x.num >= 0 THEN x.num \div x.den ELSE -((-x.num) \div x.den)

\* TrustScoringConfig::default()
DefaultTrustScoringConfig ==
    [suspicion_threshold |-> 50,
     network_activity_weight |-> Rat(4, 10),
     filesystem_activity_weight |-> Rat(3, 10),
     process_activity_weight |-> Rat(3, 10),
     sensitive_path_penalty |-> -10,
     outbound_connection_penalty |-> -5,
     child_process_penalty |-> -3,
     consistency_bonus |-> 5]

calculate_network_score(profile, cfg) ==
    LET connections ==
            IF profile.unique_destinations > 10
            THEN rat_mul(Rat(cfg.outbound_connection_penalty, 1),
                         Rat(profile.unique_destinations, 10))
            ELSE Rat(0, 1)
    IN  IF profile.dns_query_count > 50
        THEN rat_add(connections, Rat(-(profile.dns_query_count - 50), 5))
        ELSE connections

calculate_filesystem_score(profile, cfg) ==
    LET sensitive ==
            IF profile.sensitive_path_attempts > 0
            THEN rat_mul(Rat(cfg.sensitive_path_penalty, 1),
                         Rat(profile.sensitive_path_attempts, 1))
            ELSE Rat(0, 1)
    IN  IF profile.file_modifications > 100
        THEN rat_add(sensitive, Rat(-(profile.file_modifications - 100), 20))
        ELSE sensitive

calculate_process_score(profile, cfg) ==
    IF profile.child_process_count > 10
    THEN rat_mul(Rat(cfg.child_process_penalty, 1), Rat(profile.child_process_count, 10))
    ELSE Rat(0, 1)

\* a tier table whose Red range ends at 24
tier_from_score_red_below_25(score) ==
    IF score <= 24 THEN "Red"
    ELSE IF score <= 75 THEN "Yellow"
    ELSE IF score <= 100 THEN "Green"
    ELSE "Yellow"

\* TrustScore::tier_from_score
tier_from_score(score) ==
    IF score <= 25 THEN "Red"
    ELSE IF score <= 75 THEN "Yellow"
    ELSE IF score <= 100 THEN "Green"
    ELSE "Yellow"

\* TrustScore::assessment_from_score
assessment_from_score(score) ==
    IF score > 100 THEN "Unknown"
    ELSE IF score >= 90 THEN "Excellent - Consistent trustworthy behavior"
    ELSE IF score >= 75 THEN "Good - Normal behavior patterns"
    ELSE IF score >= 50 THEN "Fair - Some unusual activity detected"
    ELSE IF score >= 25 THEN "Poor - Suspicious behavior observed"
    ELSE "Critical - High risk activity detected"

\* `x as u32` of an i32: a negative x becomes 2^32 + x, held as wrapped = TRUE
\* with low = x; otherwise the value is low
as_u32(x) == [wrapped |-> x < 0, low |-> x]

\* u32::clamp(0, 100): 2^32 + x is above 100 for every i32 x
clamp_0_100(score) ==
    IF score.wrapped THEN 100
    ELSE IF score.low > 100 THEN 100
    ELSE score.low

\* TrustScore::new(score: u32, notes)
NewTrustScore(score, notes) ==
    LET clamped_score == clamp_0_100(score)
    IN  [score |-> clamped_score,
         recommended_tier |-> tier_from_score(clamped_score),
         assessment |-> assessment_from_score(clamped_score),
         notes |-> notes,
         is_suspicious |-> clamped_score < 50]

\* the base score of calculate_trust_score for the current tier
tier_modulation(current_tier) ==
    CASE current_tier = "Green" -> 15
      [] current_tier = "Yellow" -> 0
      [] current_tier = "Red" -> -15

\* calculate_trust_score: the i32 `score` as it stands before TrustScore::new
signed_score(current_tier, profile, cfg) ==
    75 + tier_modulation(current_tier)
       + as_i32(rat_mul(calculate_network_score(profile, cfg), cfg.network_activity_weight))
       + as_i32(rat_mul(calculate_filesystem_score(profile, cfg),
                        cfg.filesystem_activity_weight))
       + as_i32(rat_mul(calculate_process_score(profile, cfg), cfg.process_activity_weight))
       + (IF profile.denied_attempts > 0 THEN -(profile.denied_attempts * 3) ELSE 0)
       + (IF ~is_suspicious(profile) /\ profile.denied_attempts = 0
          THEN cfg.consistency_bonus ELSE 0)

\* calculate_trust_score: the notes in the order they are pushed
score_notes(profile, cfg) ==
    (IF calculate_network_score(profile, cfg).num < 0
     THEN << <<"Network activity penalty: {:.1}", "">> >> ELSE <<>>)
    \o (IF calculate_filesystem_score(profile, cfg).num < 0
        THEN << <<"Filesystem activity penalty: {:.1}", "">> >> ELSE <<>>)
    \o (IF profile.denied_attempts > 0
        THEN << <<"Denied access attempts ({}): {}", profile.denied_attempts>> >>
        ELSE <<>>)
    \o (IF ~is_suspicious(profile) /\ profile.denied_attempts = 0
        THEN << <<"Consistency bonus: +{}", cfg.consistency_bonus>> >> ELSE <<>>)
    \o [i \in 1..Len(profile.suspicious_patterns) |->
            <<"Suspicious: {}", profile.suspicious_patterns[i]>>]

calculate_trust_score(current_tier, profile, cfg) ==
    NewTrustScore(as_u32(signed_score(current_tier, profile, cfg)),
                  score_notes(profile, cfg))

\* ------------------------------------------------------------------------
\* Access attempts (winewarden-core/src/types.rs)
\* ------------------------------------------------------------------------
PathTarget(p) == [tag |-> "Path", val |-> p]
NetworkTarget(host, port) == [tag |-> "Network", val |-> <<host, port>>]
DeviceTarget(name) == [tag |-> "Device", val |-> <<name>>]
SocketTarget(name) == [tag |-> "Socket", val |-> <<name>>]

AccessAttempt(kind, target) == [kind |-> kind, target |-> target]

\* ------------------------------------------------------------------------
\* PolicyEngine (policy-engine/src/lib.rs)
\* ------------------------------------------------------------------------
\* a file name whose bytes are not valid UTF-8
NonUtf8Name == "\\xFF"

\* Path::to_str: the path as a str when all of it is valid UTF-8
to_str(path) ==
    IF \E i \in 1..Len(path) : path[i] = NonUtf8Name THEN None ELSE Some(path)

update_behavior_profile_any_kind(p, attempt) ==
    IF attempt.target.tag = "Path" /\ IsSome(to_str(attempt.target.val))
    THEN record_file_modification(p, Unwrap(to_str(attempt.target.val)))
    ELSE p

update_behavior_profile(p, attempt) ==
    IF attempt.kind = "Write"
    THEN IF attempt.target.tag = "Path"
         THEN IF IsSome(to_str(attempt.target.val))
              THEN record_file_modification(p, Unwrap(to_str(attempt.target.val)))
              ELSE p
         ELSE p
    ELSE p

\* the decision PolicyEngine::evaluate computes for an attempt
evaluate_decision(attempt, ctx, cfg, zones) ==
    CASE attempt.target.tag = "Path" ->
            evaluate_path(attempt.target.val, ctx.prefix_root, zones)
      [] attempt.target.tag = "Network" ->
            evaluate_network(cfg, ctx.trust_tier)
      [] attempt.target.tag = "Device" ->
            PolicyDecision(Deny, <<"Device access blocked: ", attempt.target.val[1]>>,
                           Some("Sacred devices"), TRUE)
      [] attempt.target.tag = "Socket" ->
            PolicyDecision(Deny, <<"System socket access blocked: ", attempt.target.val[1]>>,
                           Some("System sockets"), TRUE)

\* the behavior profile PolicyEngine::evaluate leaves behind
evaluate_profile(p, attempt, ctx, cfg, zones) ==
    LET p1 == update_behavior_profile(p, attempt)
        p2 == IF attempt.target.tag = "Network"
              THEN record_outbound_connection(p1, attempt.target.val[1])
              ELSE p1
        d  == evaluate_decision(attempt, ctx, cfg, zones)
    IN  IF d.action.tag = "Deny" THEN record_denied_attempt(p2, d.reason) ELSE p2

\* an engine that denies every attempt once its profile is suspicious
evaluate_wary(attempt) ==
    /\ decision' =
           Some(IF is_suspicious(behavior_profile)
                THEN PolicyDecision(Deny, <<"Suspicious session", "">>, None, TRUE)
                ELSE evaluate_decision(attempt, context, config, sacred_zones))
    /\ behavior_profile' =
           evaluate_profile(behavior_profile, attempt, context, config, sacred_zones)
    /\ call' = [op |-> "evaluate", arg |-> attempt]
    /\ UNCHANGED <<sacred_zones, config, context, process_tracker>>

\* PolicyEngine::evaluate as a step of the engine
evaluate(attempt) ==
    /\ decision' = Some(evaluate_decision(attempt, context, config, sacred_zones))
    /\ behavior_profile' =
           evaluate_profile(behavior_profile, attempt, context, config, sacred_zones)
    /\ call' = [op |-> "evaluate", arg |-> attempt]
    /\ UNCHANGED <<sacred_zones, config, context, process_tracker>>

\* ------------------------------------------------------------------------
\* Character strings (str methods used by policy-engine/src/rules/process.rs)
\* ------------------------------------------------------------------------
UpperCase == <<"A", "B", "C", "D", "E", "F", "G", "H", "I", "J", "K", "L", "M", "N", "O", "P", "Q", "R", "S", "T", "U", "V", "W", "X", "Y", "Z">>
LowerCase == <<"a", "b", "c", "d", "e", "f", "g", "h", "i", "j", "k", "l", "m", "n", "o", "p", "q", "r", "s", "t", "u", "v", "w", "x", "y", "z">>

to_lowercase_char(c) ==
    IF \E i \in 1..Len(UpperCase) : UpperCase[i] = c
    THEN LowerCase[CHOOSE i \in 1..Len(UpperCase) : UpperCase[i] = c]
    ELSE c

to_lowercase(s) == [i \in 1..Len(s) |-> to_lowercase_char(s[i])]

str_starts_with(s, t) == Len(t) <= Len(s) /\ SubSeq(s, 1, Len(t)) = t

str_ends_with(s, t) == Len(t) <= Len(s) /\ SubSeq(s, Len(s) - Len(t) + 1, Len(s)) = t

\* the byte offsets at which t occurs in s
occurrences(s, t) == {i \in 0..(Len(s) - Len(t)) : SubSeq(s, i + 1, i + Len(t)) = t}

str_contains(s, t) == occurrences(s, t) # {}

\* s[from..].find(t): Some(offset of the first occurrence in the slice) or None
RECURSIVE min_of(_)
min_of(S) == LET x == CHOOSE y \in S : TRUE
             IN  IF S = {x} THEN x
                 ELSE LET m == min_of(S \ {x}) IN IF x < m THEN x ELSE m

str_find_from(s, from, t) ==
    LET rest == SubSeq(s, from + 1, Len(s))
        occ  == occurrences(rest, t)
    IN  IF occ = {} THEN None ELSE Some(min_of(occ))

\* s.split(sep).collect(): the parts between occurrences of the character sep
RECURSIVE str_split(_, _)
str_split(s, sep) ==
    IF \A i \in 1..Len(s) : s[i] # sep THEN <<s>>
    ELSE LET k == CHOOSE i \in 1..Len(s) :
                      s[i] = sep /\ \A j \in 1..(i - 1) : s[j] # sep
         IN  <<SubSeq(s, 1, k - 1)>> \o str_split(SubSeq(s, k + 1, Len(s)), sep)

\* ------------------------------------------------------------------------
\* Process rules (policy-engine/src/rules/process.rs)
\* ------------------------------------------------------------------------
NewProcessTracker ==
    [child_count |-> 0, process_counts |-> <<>>, allowed |-> <<>>, denied |-> <<>>]

\* process_counts is a HashMap: a function whose domain is the set of keys
entry_increment(counts, key) ==
    [k \in (DOMAIN counts) \cup {key} |->
        IF k = key THEN (IF key \in DOMAIN counts THEN counts[key] ELSE 0) + 1
        ELSE counts[k]]

\* a tracker that counts denied attempts as children
record_attempt_counting_denials(tracker, process, allowed) ==
    IF allowed THEN
        [tracker EXCEPT !.allowed = Append(@, process),
                        !.child_count = @ + 1,
                        !.process_counts = entry_increment(@, process)]
    ELSE
        [tracker EXCEPT !.denied = Append(@, process), !.child_count = @ + 1]

record_attempt(tracker, process, allowed) ==
    IF allowed THEN
        [tracker EXCEPT !.allowed = Append(@, process),
                        !.child_count = @ + 1,
                        !.process_counts = entry_increment(@, process)]
    ELSE
        [tracker EXCEPT !.denied = Append(@, process)]

\* a limit check that lets one more child through
would_exceed_limit_after(tracker, limit) == tracker.child_count > limit

would_exceed_limit(tracker, limit) == tracker.child_count >= limit

\* the `while part_idx < parts.len()` loop of matches_pattern; part_idx and
\* name_pos are the code's 0-based counters
RECURSIVE match_parts(_, _, _, _, _)
match_parts(name_lower, pattern_lower, parts, part_idx, name_pos) ==
    IF part_idx >= Len(parts) THEN TRUE
    ELSE
      LET part == parts[part_idx + 1]
          is_first == part_idx = 0 \/ \A j \in 1..part_idx : parts[j] = <<>>
          is_last  == part_idx = Len(parts) - 1
                         \/ \A j \in (part_idx + 2)..Len(parts) : parts[j] = <<>>
      IN  IF part = <<>> THEN
              match_parts(name_lower, pattern_lower, parts, part_idx + 1, name_pos)
          ELSE IF is_first /\ ~str_starts_with(pattern_lower, <<"*">>) THEN
              IF ~str_starts_with(name_lower, part) THEN FALSE
              ELSE match_parts(name_lower, pattern_lower, parts, part_idx + 1, Len(part))
          ELSE IF is_last /\ ~str_ends_with(pattern_lower, <<"*">>) THEN
              str_ends_with(name_lower, part)
          ELSE
              LET found == str_find_from(name_lower, name_pos, part)
              IN  IF IsSome(found)
                  THEN match_parts(name_lower, pattern_lower, parts, part_idx + 1,
                                   name_pos + Unwrap(found) + Len(part))
                  ELSE FALSE

matches_pattern(name, pattern) ==
    LET name_lower == to_lowercase(name)
        pattern_lower == to_lowercase(pattern)
    IN  IF ~str_contains(pattern_lower, <<"*">>) THEN name_lower = pattern_lower
        ELSE match_parts(name_lower, pattern_lower, str_split(pattern_lower, "*"), 0, 0)

shell_names == <<<<"s", "h">>,
                <<"b", "a", "s", "h">>,
                <<"z", "s", "h">>,
                <<"f", "i", "s", "h">>,
                <<"d", "a", "s", "h">>,
                <<"c", "s", "h">>,
                <<"t", "c", "s", "h">>,
                <<"p", "o", "w", "e", "r", "s", "h", "e", "l", "l">>,
                <<"p", "w", "s", "h">>,
                <<"c", "m", "d", ".", "e", "x", "e">>,
                <<"c", "o", "m", "m", "a", "n", "d", ".", "c", "o", "m">>>>

script_exts == <<<<".", "s", "h">>,
                <<".", "b", "a", "s", "h">>,
                <<".", "z", "s", "h">>,
                <<".", "f", "i", "s", "h">>,
                <<".", "p", "y">>,
                <<".", "p", "y", "w">>,
                <<".", "p", "y", "c">>,
                <<".", "p", "l">>,
                <<".", "p", "m">>,
                <<".", "r", "b">>,
                <<".", "j", "s">>,
                <<".", "j", "s", "x">>,
                <<".", "p", "s", "1">>,
                <<".", "p", "s", "m", "1">>,
                <<".", "b", "a", "t">>,
                <<".", "c", "m", "d">>,
                <<".", "v", "b", "s">>,
                <<".", "w", "s", "f">>>>

is_shell(process) ==
    \E i \in 1..Len(shell_names) : str_contains(to_lowercase(process), shell_names[i])

is_script(process) ==
    \E i \in 1..Len(script_exts) : str_ends_with(to_lowercase(process), script_exts[i])

\* the first pattern of the list that matches, as the `for pattern in` loops find it
first_match(process, patterns) ==
    LET hits == {i \in 1..Len(patterns) : matches_pattern(process, patterns[i])}
    IN  IF hits = {} THEN None ELSE Some(patterns[min_of(hits)])

ProcessSecurityDeny(reason) ==
    PolicyDecision(Deny, reason, Some("Process Security"), TRUE)

\* rules::process::evaluate_process_spawn: the decision and the tracker it leaves
process_evaluate_process_spawn(process, cfg, tracker) ==
    LET blocked == first_match(process, cfg.blocked_patterns)
    IN  IF would_exceed_limit(tracker, cfg.max_child_processes) THEN
            [decision |-> PolicyDecision(Deny,
                              <<"Child process limit exceeded (max: {})",
                                cfg.max_child_processes>>,
                              Some("Process Limits"), TRUE),
             tracker |-> tracker]
        ELSE IF IsSome(blocked) THEN
            [decision |-> ProcessSecurityDeny(
                              <<"Process blocked by pattern '{}'", Unwrap(blocked)>>),
             tracker |-> record_attempt(tracker, process, FALSE)]
        ELSE IF is_shell(process) /\ ~cfg.allow_shell_execution THEN
            [decision |-> ProcessSecurityDeny(<<"Shell execution not allowed", "">>),
             tracker |-> record_attempt(tracker, process, FALSE)]
        ELSE IF is_script(process) /\ ~cfg.allow_script_execution THEN
            [decision |-> ProcessSecurityDeny(<<"Script execution not allowed", "">>),
             tracker |-> record_attempt(tracker, process, FALSE)]
        ELSE IF cfg.allowed_patterns # <<>>
                /\ ~IsSome(first_match(process, cfg.allowed_patterns)) THEN
            [decision |-> ProcessSecurityDeny(
                              <<"Process '{}' not in allowed patterns", process>>),
             tracker |-> record_attempt(tracker, process, FALSE)]
        ELSE
            [decision |-> PolicyDecision(Allow, <<"Process allowed: {}", process>>,
                                         Some("Process"), FALSE),
             tracker |-> record_attempt(tracker, process, TRUE)]

\* PolicyEngine::evaluate_process_spawn as a step of the engine
evaluate_process_spawn(process) ==
    LET r == process_evaluate_process_spawn(process, config.process, process_tracker)
    IN  /\ decision' = Some(r.decision)
        /\ process_tracker' = r.tracker
        /\ behavior_profile' =
               IF r.decision.action.tag = "Allow"
               THEN record_child_process(behavior_profile, process)
               ELSE record_denied_attempt(behavior_profile, r.decision.reason)
        /\ call' = [op |-> "evaluate_process_spawn", arg |-> process]
        /\ UNCHANGED <<sacred_zones, config, context>>

\* ------------------------------------------------------------------------
\* Path mapper (monitor/src/path_redirect.rs)
\* ------------------------------------------------------------------------
\* byte length of a path component
name_len(c) ==
    CASE c = RootDir -> 1
      [] c \in PathNames -> 1
      [] c = "tmp" -> 3
      [] c = "opt" -> 3
      [] c = "srv" -> 3
      [] c = "etc" -> 3
      [] c = "home" -> 4
      [] c = "root" -> 4
      [] c = "user" -> 4
      [] c = ".ssh" -> 4
      [] c = "prefix" -> 6
      [] OTHER -> 8

RECURSIVE sum_name_len(_)
sum_name_len(path) ==
    IF path = <<>> THEN 0 ELSE name_len(Head(path)) + sum_name_len(Tail(path))

\* Path::as_os_str().len(): the components and the separators between them
os_str_len(path) ==
    IF path = <<>> THEN 0
    ELSE IF Head(path) = RootDir
         THEN 1 + sum_name_len(Tail(path)) + (IF Len(path) > 2 THEN Len(path) - 2 ELSE 0)
         ELSE sum_name_len(path) + Len(path) - 1

\* sort_mappings: a stable sort, longest source first
RECURSIVE insert_mapping(_, _)
insert_mapping(sorted, m) ==
    IF sorted = <<>> THEN <<m>>
    ELSE IF os_str_len(m[1]) > os_str_len(Head(sorted)[1])
         THEN <<m>> \o sorted
         ELSE <<Head(sorted)>> \o insert_mapping(Tail(sorted), m)

RECURSIVE sort_from(_, _)
sort_from(sorted, rest) ==
    IF rest = <<>> THEN sorted
    ELSE sort_from(insert_mapping(sorted, Head(rest)), Tail(rest))

sort_mappings(mappings) == sort_from(<<>>, mappings)

\* a mapper that keeps the mappings in the order given
with_mappings_unsorted(mappings) == mappings

with_mappings(mappings) == sort_mappings(mappings)

\* the `for (source, dest) in &self.mappings` loop of map_path, from index i on
RECURSIVE map_from(_, _, _)
map_from(mappings, original, i) ==
    IF i > Len(mappings) THEN None
    ELSE IF starts_with(original, mappings[i][1])
         THEN Some(mappings[i][2]
                     \o SubSeq(original, Len(mappings[i][1]) + 1, Len(original)))
         ELSE map_from(mappings, original, i + 1)

map_path(mapper, original) == map_from(mapper, original, 1)

HOME == <<RootDir, "home", "user">>

default_mappings(data_dir) ==
    LET virtual_base == Append(data_dir, "virtual")
    IN  << <<HOME, Append(virtual_base, "home")>>,
           << <<RootDir, "tmp">>, Append(virtual_base, "tmp")>>,
           << <<RootDir, "root">>, Append(virtual_base, "root")>> >>

\* from_env_or_default with WINEWARDEN_REDIRECT_MAP unset or well-formed: the
\* default mappings stand for either list
from_env_or_default(data_dir) == with_mappings(default_mappings(data_dir))

\* ------------------------------------------------------------------------
\* Copy on write (monitor/src/path_redirect.rs)
\* ------------------------------------------------------------------------
\* Result<PathBuf>
Ok(path) == [ok |-> TRUE, path |-> path]
Err == [ok |-> FALSE, path |-> <<>>]

\* CopyOnWrite::new
NewCopyOnWrite == copied = <<>>

\* HashMap::insert on a map held as a function
insert(map, key, value) ==
    [k \in (DOMAIN map) \cup {key} |-> IF k = key THEN value ELSE map[k]]

\* copy_on_write: `kind` is what the filesystem holds at original ("absent",
\* "dir" or "file"), io_ok whether every filesystem call of the branch taken
\* succeeds (ensure_dir_exists, metadata, set_permissions, copy)
copy_on_write(map, original, virtual_path, kind, io_ok) ==
    IF kind = "absent" THEN
        IF ~io_ok THEN [ret |-> Err, copied |-> map]
        ELSE [ret |-> Ok(virtual_path), copied |-> insert(map, original, virtual_path)]
    ELSE
        IF ~io_ok THEN [ret |-> Err, copied |-> map]
        ELSE [ret |-> Ok(virtual_path), copied |-> insert(map, original, virtual_path)]

\* a resolve that does not look the original up before copying
resolve_write_path_no_lookup(map, original, virtual_path, is_write, kind, io_ok) ==
    IF ~is_write THEN [ret |-> Ok(virtual_path), copied |-> map]
    ELSE copy_on_write(map, original, virtual_path, kind, io_ok)

resolve_write_path(map, original, virtual_path, is_write, kind, io_ok) ==
    IF original \in DOMAIN map THEN [ret |-> Ok(map[original]), copied |-> map]
    ELSE IF ~is_write THEN [ret |-> Ok(virtual_path), copied |-> map]
    ELSE copy_on_write(map, original, virtual_path, kind, io_ok)

\* ------------------------------------------------------------------------
\* Reading child memory (monitor/src/memory.rs, seccomp_handler.rs)
\* ------------------------------------------------------------------------
\* A length taken from a 64-bit syscall argument: over_isize says that it
\* exceeds isize::MAX, low is its value otherwise.
Length(n) == [over_isize |-> FALSE, low |-> n]
OverIsizeMax == [over_isize |-> TRUE, low |-> 0]

RECURSIVE zeros(_)
zeros(n) == IF n <= 0 THEN <<>> ELSE <<0>> \o zeros(n - 1)

\* read_remote_memory: "panic" when vec![0u8; len] exceeds the capacity a Vec
\* may have, Err when the task is gone or fewer than len bytes are mapped
read_remote_memory(alive, mem, len) ==
    IF len.over_isize THEN [tag |-> "panic", val |-> <<>>]
    ELSE IF ~alive \/ mem.mapped < len.low THEN [tag |-> "Err", val |-> <<>>]
    ELSE [tag |-> "Ok",
          val |-> SubSeq(mem.bytes \o zeros(len.low - Len(mem.bytes)), 1, len.low)]

AF_INET == 2
AF_INET6 == 10

\* a parser that reads the port as a little-endian u16
parse_sockaddr_le_port(data) ==
    IF Len(data) < 2 THEN None
    ELSE LET family == data[1] + 256 * data[2]
         IN  IF family = AF_INET /\ Len(data) >= 8 THEN
                 Some([host |-> SubSeq(data, 5, 8),
                       port |-> data[3] + 256 * data[4]])
             ELSE IF family = AF_INET6 /\ Len(data) >= 24 THEN
                 Some([host |-> [i \in 1..8 |-> data[7 + 2 * i] * 256 + data[8 + 2 * i]],
                       port |-> data[3] + 256 * data[4]])
             ELSE None

\* parse_sockaddr on x86_64: the family is a little-endian u16
parse_sockaddr(data) ==
    IF Len(data) < 2 THEN None
    ELSE LET family == data[1] + 256 * data[2]
         IN  IF family = AF_INET /\ Len(data) >= 8 THEN
                 Some([host |-> SubSeq(data, 5, 8),
                       port |-> data[3] * 256 + data[4]])
             ELSE IF family = AF_INET6 /\ Len(data) >= 24 THEN
                 Some([host |-> [i \in 1..8 |-> data[7 + 2 * i] * 256 + data[8 + 2 * i]],
                       port |-> data[3] * 256 + data[4]])
             ELSE None

\* read_null_terminated_string: the string at the pointer, Err when the memory
\* cannot be read or the bytes are not UTF-8
read_null_terminated_string(alive, mem) ==
    IF ~alive \/ ~mem.pmapped THEN [tag |-> "Err", val |-> <<>>]
    ELSE IF ~mem.utf8 THEN [tag |-> "Err", val |-> <<>>]
    ELSE [tag |-> "Ok", val |-> mem.path]

\* ------------------------------------------------------------------------
\* Syscall numbers (monitor/src/seccomp_handler.rs)
\* ------------------------------------------------------------------------
SYS_CONNECT == 42
SYS_BIND == 49
SYS_OPEN == 2
SYS_OPENAT == 257
SYS_OPENAT2 == 437
SYS_STAT == 4
SYS_LSTAT == 6
SYS_FSTATAT == 262
SYS_ACCESS == 21
SYS_FACCESSAT == 269
SYS_FACCESSAT2 == 439
SYS_MKDIR == 83
SYS_MKDIRAT == 258
AT_FDCWD == -100
EPERM == 1
SECCOMP_USER_NOTIF_FLAG_CONTINUE == 1

is_filesystem_syscall(syscall) ==
    syscall \in {SYS_OPEN, SYS_OPENAT, SYS_OPENAT2, SYS_STAT, SYS_LSTAT, SYS_FSTATAT,
                 SYS_ACCESS, SYS_FACCESSAT, SYS_FACCESSAT2, SYS_MKDIR, SYS_MKDIRAT}

\* the syscalls whose first argument is the path
PathFirst == {SYS_OPEN, SYS_ACCESS, SYS_STAT, SYS_LSTAT, SYS_MKDIR}

\* read_path_argument: None, or Some(result of reading the path)
read_path_argument(r, alive) ==
    IF r.nr \in PathFirst THEN
        Some(read_null_terminated_string(alive, r.mem))
    ELSE IF r.nr \in {SYS_OPENAT, SYS_MKDIRAT, SYS_FACCESSAT, SYS_FSTATAT, SYS_FACCESSAT2} THEN
        IF r.dirfd = AT_FDCWD THEN Some(read_null_terminated_string(alive, r.mem))
        ELSE None
    ELSE None

\* what the handler has worked out when it reaches "6. Send Response"
Analysis(da, pr, ev, profile, note) ==
    [panic |-> FALSE, decision_action |-> da, path_redirect |-> pr, event_data |-> ev,
     profile |-> profile, note |-> note]

Panicked(profile) ==
    [panic |-> TRUE, decision_action |-> "Allow", path_redirect |-> None,
     event_data |-> None, profile |-> profile, note |-> "panic"]

handle_network_syscall(r, alive, profile, ctx, cfg, zones) ==
    IF ~r.addrlen.over_isize /\ r.addrlen.low = 0 THEN
        Analysis("Allow", None, None, profile, "addrlen 0")
    ELSE
      LET read == read_remote_memory(alive, r.mem, r.addrlen) IN
      IF read.tag = "panic" THEN Panicked(profile)
      ELSE IF read.tag = "Err" THEN
          Analysis("Allow", None, None, profile, "read failed")
      ELSE
        LET target == parse_sockaddr(read.val) IN
        IF ~IsSome(target) THEN
            Analysis("Allow", None, None, profile, "unsupported family")
        ELSE
          LET attempt == AccessAttempt("Network",
                             NetworkTarget(Unwrap(target).host, Unwrap(target).port))
              d == evaluate_decision(attempt, ctx, cfg, zones)
          IN  Analysis(IF d.action.tag = "Deny" THEN "Deny" ELSE "Allow", None,
                       Some([attempt |-> attempt, decision |-> d]),
                       evaluate_profile(profile, attempt, ctx, cfg, zones), "evaluated")

handle_filesystem_syscall(r, alive, mapper, profile, ctx, cfg, zones) ==
    LET path_result == read_path_argument(r, alive) IN
    IF ~IsSome(path_result) THEN
        Analysis("Allow", None, None, profile, "no path")
    ELSE IF Unwrap(path_result).tag = "Err" THEN
        Analysis("Allow", None, None, profile, "read failed")
    ELSE
      LET path == Unwrap(path_result).val
          attempt == AccessAttempt("Read", PathTarget(path))
          d == evaluate_decision(attempt, ctx, cfg, zones)
          mapped == map_path(mapper, path)
          redirects == d.action.tag \in {"Redirect", "Virtualize"}
      IN  Analysis(IF d.action.tag = "Deny" THEN "Deny" ELSE "Allow",
                   IF redirects THEN mapped ELSE None,
                   Some([attempt |-> attempt, decision |-> d]),
                   evaluate_profile(profile, attempt, ctx, cfg, zones), "evaluated")

\* handle_notification between the receive and the send ioctl
analyse(r, alive, mapper, profile, ctx, cfg, zones) ==
    IF r.nr = SYS_CONNECT \/ r.nr = SYS_BIND THEN
        handle_network_syscall(r, alive, profile, ctx, cfg, zones)
    ELSE IF is_filesystem_syscall(r.nr) THEN
        handle_filesystem_syscall(r, alive, mapper, profile, ctx, cfg, zones)
    ELSE Analysis("Allow", None, None, profile, "unknown syscall")

\* a response that lets a denied syscall continue
build_response_continue_on_deny(id, decision_action, path_redirect) ==
    [id |-> id, val |-> 0,
     error |-> IF decision_action = "Deny" THEN EPERM ELSE 0,
     flags |-> SECCOMP_USER_NOTIF_FLAG_CONTINUE]

\* the SeccompNotifResp built under "6. Send Response"
build_response(id, decision_action, path_redirect) ==
    LET error0 == IF decision_action = "Deny" THEN EPERM ELSE 0 IN
    IF IsSome(path_redirect) THEN
        [id |-> id, val |-> 0, error |-> 0, flags |-> SECCOMP_USER_NOTIF_FLAG_CONTINUE]
    ELSE IF decision_action = "Allow" THEN
        [id |-> id, val |-> 0, error |-> error0, flags |-> SECCOMP_USER_NOTIF_FLAG_CONTINUE]
    ELSE [id |-> id, val |-> 0, error |-> error0, flags |-> 0]

\* ------------------------------------------------------------------------
\* The session: configuration, request and inputs of Monitor::run
\* ------------------------------------------------------------------------
Zone(label, path, action, redirect_to) ==
    [label |-> label, path |-> path, action |-> action, redirect_to |-> redirect_to]

DATA_DIR == <<RootDir, "data">>

\* Config::default_config().sacred_zones with ${HOME} and ${DATA_DIR} expanded
DefaultZones ==
    << Zone("Home outside prefix", HOME, "Redirect",
            Some(DATA_DIR \o <<"virtual", "home">>)),
       Zone("SSH keys", Append(HOME, ".ssh"), "Deny", None),
       Zone("GPG keys", Append(HOME, ".gnupg"), "Deny", None),
       Zone("User config", Append(HOME, ".config"), "Redirect",
            Some(DATA_DIR \o <<"virtual", "config">>)) >>

\* the default zones and three more: a Virtualize zone the path mapper has a
\* rule for, and a Virtualize and a Redirect zone it has none for
SessionZones ==
    DefaultZones \o
    << Zone("Temp", <<RootDir, "tmp">>, "Virtualize", None),
       Zone("Opt", <<RootDir, "opt">>, "Virtualize", None),
       Zone("Srv", <<RootDir, "srv">>, "Redirect", None) >>

PrefixRoot == <<RootDir, "prefix">>

\* Config::default_config(): the network and process sections
DefaultConfig ==
    [network |-> [mode |-> "Observe", block_on_malicious |-> TRUE],
     process |-> [allowed_patterns |->
                      << <<"w","i","n","e","*">>,
                         <<"w","i","n","e","s","e","r","v","e","r">>,
                         <<"*",".","e","x","e">> >>,
                  blocked_patterns |->
                      << <<"*","n","c","*">>,
                         <<"*","n","e","t","c","a","t","*">>,
                         <<"*","p","o","w","e","r","s","h","e","l","l","*">>,
                         <<"*","c","m","d",".","e","x","e","*">> >>,
                  max_child_processes |-> 50,
                  allow_shell_execution |-> FALSE,
                  allow_script_execution |-> FALSE]]

\* paths a syscall of the child may name
SessionPaths ==
    { PrefixRoot \o <<"game">>,           \* inside the prefix
      <<RootDir, "etc", "shadow">>,       \* outside, in no zone
      HOME \o <<"doc">>,                  \* Redirect zone, mapped
      HOME \o <<".ssh", "id">>,           \* under the SSH keys zone
      <<RootDir, "tmp", "x">>,            \* Virtualize zone, mapped
      <<RootDir, "opt", "x">>,            \* Virtualize zone, not mapped
      <<RootDir, "srv", "x">>,            \* Redirect zone, not mapped
      <<"rel">> }                         \* relative to the working directory


\* a u64 poll interval as <<q, r>>, standing for q * 2^31 + r with r < 2^31
DEFAULT_POLL_INTERVAL_MS == 250

LiveMonitorConfig(fs, proc, net, ms) ==
    [fs |-> fs, proc |-> proc, net |-> net, poll_interval_ms |-> ms]

\* LiveMonitorConfig::default()
DefaultLiveMonitorConfig ==
    LiveMonitorConfig(FALSE, FALSE, FALSE, <<0, DEFAULT_POLL_INTERVAL_MS>>)

enabled(live) == live.fs \/ live.proc \/ live.net

RunRequest(no_run, live_monitor, event_log, redirect_map_ok, trust_tier) ==
    [no_run |-> no_run, live_monitor |-> live_monitor, event_log |-> event_log,
     redirect_map_ok |-> redirect_map_ok, trust_tier |-> trust_tier]

\* `winewarden run` with no option, and the requests that differ from it in
\* one respect
PlainRequest == RunRequest(FALSE, None, None, TRUE, "Yellow")

Requests ==
    { PlainRequest,
      [PlainRequest EXCEPT !.trust_tier = "Red"],
      [PlainRequest EXCEPT !.no_run = TRUE],
      [PlainRequest EXCEPT !.live_monitor =
          Some(LiveMonitorConfig(TRUE, TRUE, TRUE, <<0, DEFAULT_POLL_INTERVAL_MS>>))],
      [PlainRequest EXCEPT !.live_monitor =
          Some(LiveMonitorConfig(FALSE, TRUE, FALSE, <<1, 0>>))],
      [PlainRequest EXCEPT !.event_log = Some("readable")],
      [PlainRequest EXCEPT !.event_log = Some("missing")],
      [PlainRequest EXCEPT !.redirect_map_ok = FALSE],
      [PlainRequest EXCEPT !.no_run = TRUE, !.redirect_map_ok = FALSE] }

\* request.live_monitor.clone().unwrap_or_default()
live_config == unwrap_or_else(request.live_monitor, DefaultLiveMonitorConfig)

\* `x as i32` of a u64 <<q, r>>: bit 31 becomes the sign
as_i32_negative(ms) == ms[1] % 2 = 1

\* the poll timeout of one iteration: "NONE" waits without limit
poll_timeout ==
    IF enabled(live_config) THEN
        IF as_i32_negative(live_config.poll_interval_ms) THEN "NONE"
        ELSE "finite"
    ELSE "finite"

\* the mapper of HandlerContext::new(prefix_root.join(".winewarden"))
handler_mapper == from_env_or_default(Append(context.prefix_root, ".winewarden"))

\* sockaddr bytes in child memory
SockAddrs ==
    { <<2, 0, 1, 187, 93, 184, 216, 34, 0, 0, 0, 0, 0, 0, 0, 0>>,
      <<10, 0, 0, 80, 0, 0, 0, 0, 32, 1, 13, 184, 0, 0, 0, 0, 0, 0, 0, 0,
        0, 0, 0, 1, 0, 0, 0, 0>>,
      <<1, 0, 47, 120, 0, 0, 0, 0, 0, 0, 0, 0, 0, 0, 0, 0>> }

MAPPED_BYTES == 32

Mem(bytes, mapped, path, utf8, pmapped) ==
    [bytes |-> bytes, mapped |-> mapped, path |-> path, utf8 |-> utf8, pmapped |-> pmapped]

NetMems == {Mem(b, m, <<>>, TRUE, TRUE) : b \in SockAddrs, m \in {0, MAPPED_BYTES}}

PathMems ==
    {Mem(<<>>, 0, p, TRUE, TRUE) : p \in SessionPaths}
        \cup {Mem(<<>>, 0, <<>>, FALSE, TRUE), Mem(<<>>, 0, <<>>, TRUE, FALSE)}

FsSyscalls == {SYS_OPEN, SYS_OPENAT, SYS_OPENAT2, SYS_STAT, SYS_LSTAT, SYS_FSTATAT,
               SYS_ACCESS, SYS_FACCESSAT, SYS_FACCESSAT2, SYS_MKDIR, SYS_MKDIRAT}

Notif(id, task, nr, dirfd, addrlen, mem) ==
    [id |-> id, task |-> task, nr |-> nr, dirfd |-> dirfd, addrlen |-> addrlen, mem |-> mem]

\* what the SeccompNotif of task t with this id may hold
Notifications(id, t) ==
    {Notif(id, t, nr, 3, len, m) :
        nr \in {SYS_CONNECT, SYS_BIND},
        len \in {Length(0), Length(16), Length(28), OverIsizeMax},
        m \in NetMems}
    \cup {Notif(id, t, nr, fd, Length(0), m) :
        nr \in FsSyscalls \ PathFirst, fd \in {AT_FDCWD, 3}, m \in PathMems}
    \cup {Notif(id, t, nr, 3, Length(0), m) : nr \in PathFirst, m \in PathMems}
    \cup {Notif(id, t, 0, 3, Length(0), Mem(<<>>, 0, <<>>, TRUE, TRUE))}   \* read(2)

\* events the auxiliary watchers and the replay log deliver
FsEvents == {AccessAttempt("Write", PathTarget(PrefixRoot \o <<"save">>))}
ProcEvents == {AccessAttempt("Execute", PathTarget(<<RootDir, "usr", "wine">>))}
NetEvents == {AccessAttempt("Network", NetworkTarget(<<10, 0, 0, 1>>, 80))}
ReplayEvents == {AccessAttempt("Device", DeviceTarget("sda"))}

NoLocals == [decision_action |-> "Allow", path_redirect |-> None,
             event_data |-> None, note |-> "", resp |-> None]

NoTask == [st |-> "none", nid |-> 0]

\* TrustScoreHistory::new()
NewTrustScoreHistory == [entries |-> <<>>, max_size |-> 100]

\* no history is kept
NoHistory == history = NewTrustScoreHistory

\* the daemon has not been started
NotServing == daemon = [st |-> "stopped", served |-> <<>>]

\* DnsCapture::new()
NewDnsCapture == [queries |-> <<>>, max_entries |-> 1000, now |-> 0]
NoDnsCapture == dns = NewDnsCapture

\* TrustStore::load of a trust database that does not exist
DefaultTrustStore == [records |-> <<>>]
NoTrustStore == trust_store = DefaultTrustStore

\* no packet has been handed to parse_packet
IdleParser(data) ==
    [st |-> "idle", data |-> data, offset |-> 0, left |-> 0, questions |-> <<>>,
     pos |-> 0, jumped |-> FALSE, jump_offset |-> 0, name_parts |-> <<>>, ret |-> "none"]
NoParser == parser = IdleParser(<<>>)

\* spawn_process has not created the socketpair
NoSocketpair == fds = [parent |-> {}, child |-> {}, queued |-> {}]

\* PolicyEngine::from_config: empty tracking data; no client call yet
NewEngine ==
    /\ behavior_profile = NewBehaviorProfile
    /\ process_tracker = NewProcessTracker
    /\ call = [op |-> "none", arg |-> <<>>]
    /\ decision = None

\* Monitor::run has not been entered
NotStarted ==
    /\ pc = "start"
    /\ tasks = [child |-> NoTask, desc |-> NoTask]
    /\ boot = <<>>
    /\ notify_fd = {}
    /\ pending = {}
    /\ next_id = 1
    /\ req = None
    /\ locals = NoLocals
    /\ received = <<>>
    /\ responses = <<>>
    /\ evaluated = <<>>
    /\ aux_budget = MaxAux
    /\ result = "none"

Init ==
    /\ sacred_zones = SessionZones
    /\ config = DefaultConfig
    /\ request \in Requests
    /\ context = [prefix_root |-> PrefixRoot, trust_tier |-> request.trust_tier]
    /\ NewEngine
    /\ NotStarted
    /\ NewCopyOnWrite
    /\ NoSocketpair
    /\ NoHistory
    /\ NotServing
    /\ NoDnsCapture
    /\ NoTrustStore
    /\ NoParser

\* ------------------------------------------------------------------------
\* The kernel side of the seccomp notify descriptor
\* ------------------------------------------------------------------------
alive(t) == t.st \in {"pre_exec", "running", "blocked"}

\* closing the last descriptor of the listener releases every blocked syscall
release(ts) ==
    [t \in DOMAIN ts |-> IF ts[t].st = "blocked" THEN [st |-> "running", nid |-> 0]
                         ELSE ts[t]]

\* one holder closes its descriptor
drop_fd(holder) ==
    LET left == notify_fd \ {holder}
        last == notify_fd # {} /\ left = {}
    IN  /\ notify_fd' = left
        /\ tasks' = IF last THEN release(tasks) ELSE tasks
        /\ pending' = IF last THEN {} ELSE pending

\* the filter has no task left: poll reports POLLHUP
filter_unused == \A t \in DOMAIN tasks : ~alive(tasks[t])

\* a running task enters a syscall the filter notifies about
TaskSyscall(t) ==
    /\ tasks[t].st = "running"
    /\ notify_fd # {}
    /\ next_id <= MaxNotifs
    /\ tasks' = [tasks EXCEPT ![t] = [st |-> "blocked", nid |-> next_id]]
    /\ pending' = pending \cup {next_id}
    /\ next_id' = next_id + 1
    /\ UNCHANGED <<evars, request, cowvars, hvars, pc, boot, notify_fd, req, locals, received,
                   responses, evaluated, aux_budget, result>>

\* a task ends: it exits, or a signal kills it while its syscall is held
TaskExit(t) ==
    /\ tasks[t].st \in {"running", "blocked"}
    /\ tasks' = [tasks EXCEPT ![t] = [st |-> "exited", nid |-> 0]]
    /\ pending' = pending \ {tasks[t].nid}
    /\ UNCHANGED <<evars, request, cowvars, hvars, pc, boot, notify_fd, next_id, req, locals, received,
                   responses, evaluated, aux_budget, result>>

\* the child forks a descendant, which inherits the filter
TaskFork ==
    /\ tasks.child.st = "running"
    /\ tasks.desc.st = "none"
    /\ tasks' = [tasks EXCEPT !.desc = [st |-> "running", nid |-> 0]]
    /\ UNCHANGED <<evars, request, cowvars, hvars, pc, boot, notify_fd, pending, next_id, req, locals,
                   received, responses, evaluated, aux_budget, result>>

\* ------------------------------------------------------------------------
\* Monitor::spawn_process: the pre_exec closure in the child
\* ------------------------------------------------------------------------
\* a closure that installs the seccomp filter before the sandbox
pre_exec_steps_seccomp_first ==
    <<"seccomp", "send_fd", "close", "mappings", "unshare", "private", "bind_mounts",
      "landlock">>

\* the steps of the pre_exec closure in program order: apply_sandbox
\* (setup_mount_namespace: with_default_mappings, unshare, make private, bind
\* mounts; apply_landlock_sandbox), install_seccomp_filter, send_fd, close
pre_exec_steps ==
    <<"mappings", "unshare", "private", "bind_mounts", "landlock", "seccomp",
      "send_fd", "close">>

\* the steps whose result the closure propagates with `?`
fallible == {"mappings", "unshare", "private", "bind_mounts", "landlock", "seccomp",
             "send_fd"}

next_step == pre_exec_steps[Len(boot) + 1]

\* parsing WINEWARDEN_REDIRECT_MAP has the outcome the environment fixes;
\* every other step may succeed or fail
failed(step) == step = "mappings" /\ ~request.redirect_map_ok
succeeds(step) == step = "mappings" /\ request.redirect_map_ok

\* Monitor::spawn_process up to the fork inside Command::spawn
SpawnProcess ==
    /\ pc = "start"
    /\ ~request.no_run
    /\ \/ /\ pc' = "spawning"
          /\ tasks' = [tasks EXCEPT !.child = [st |-> "pre_exec", nid |-> 0]]
          /\ result' = result
       \/ /\ pc' = "returned"              \* socketpair failed
          /\ result' = "Err"
          /\ tasks' = tasks
    /\ UNCHANGED <<evars, request, cowvars, hvars, boot, notify_fd, pending, next_id, req, locals,
                   received, responses, evaluated, aux_budget>>

\* the child completes the next step of the closure
PreExecStep ==
    /\ tasks.child.st = "pre_exec"
    /\ Len(boot) < Len(pre_exec_steps)
    /\ ~failed(next_step)
    /\ boot' = Append(boot, next_step)
    /\ notify_fd' = CASE next_step = "seccomp" -> {"child"}
                      [] next_step = "send_fd" -> notify_fd \cup {"socket"}
                      [] next_step = "close" -> notify_fd \ {"child"}
                      [] OTHER -> notify_fd
    /\ UNCHANGED <<evars, request, cowvars, hvars, pc, tasks, pending, next_id, req, locals, received,
                   responses, evaluated, aux_budget, result>>

\* the next step fails: the closure returns the error, the child exits
PreExecFail ==
    /\ tasks.child.st = "pre_exec"
    /\ Len(boot) < Len(pre_exec_steps)
    /\ next_step \in fallible
    /\ ~succeeds(next_step)
    /\ boot' = Append(boot, "failed")
    /\ tasks' = [tasks EXCEPT !.child = [st |-> "aborted", nid |-> 0]]
    /\ notify_fd' = notify_fd \ {"child"}
    /\ UNCHANGED <<evars, request, cowvars, hvars, pc, pending, next_id, req, locals, received,
                   responses, evaluated, aux_budget, result>>

\* the closure returned Ok: the child executes the target, or exec fails
Exec ==
    /\ tasks.child.st = "pre_exec"
    /\ boot = pre_exec_steps
    /\ \/ /\ boot' = Append(boot, "exec")
          /\ tasks' = [tasks EXCEPT !.child = [st |-> "running", nid |-> 0]]
       \/ /\ boot' = Append(boot, "failed")
          /\ tasks' = [tasks EXCEPT !.child = [st |-> "aborted", nid |-> 0]]
    /\ UNCHANGED <<evars, request, cowvars, hvars, pc, notify_fd, pending, next_id, req, locals,
                   received, responses, evaluated, aux_budget, result>>

\* a spawn that reports a child whose bootstrap failed as spawned
SpawnReturnTolerant ==
    /\ pc = "spawning"
    /\ \/ /\ "exec" \in {boot[i] : i \in 1..Len(boot)}
          /\ pc' = "recv_fd"
          /\ UNCHANGED <<tasks, notify_fd, result>>
       \/ /\ tasks.child.st = "aborted"
          /\ tasks' = [tasks EXCEPT !.child = [st |-> "exited", nid |-> 0]]
          /\ pc' = "recv_fd"
          /\ UNCHANGED <<notify_fd, result>>
    /\ UNCHANGED <<evars, request, cowvars, hvars, boot, pending, next_id, req, locals, received,
                   responses, evaluated, aux_budget>>

\* Command::spawn returns: Ok once the target is executing, Err (after
\* reaping the child) when the closure or exec failed
SpawnReturn ==
    /\ pc = "spawning"
    /\ \/ /\ "exec" \in {boot[i] : i \in 1..Len(boot)}
          /\ pc' = "recv_fd"
          /\ UNCHANGED <<tasks, notify_fd, result>>
       \/ /\ tasks.child.st = "aborted"
          /\ tasks' = [tasks EXCEPT !.child = [st |-> "exited", nid |-> 0]]
          /\ notify_fd' = notify_fd \ {"socket"}
          /\ pc' = "returned"
          /\ result' = "Err"
    /\ UNCHANGED <<evars, request, cowvars, hvars, boot, pending, next_id, req, locals, received,
                   responses, evaluated, aux_budget>>
\* ------------------------------------------------------------------------
\* Monitor::run in the supervisor
\* ------------------------------------------------------------------------
\* Monitor::run returns: its locals, seccomp_fd among them, are dropped
Return(res) ==
    /\ pc' = "returned"
    /\ result' = res
    /\ drop_fd("parent")

ReportEvent(attempt, d) == [attempt |-> attempt, decision |-> d]

\* `if !request.no_run` not taken
NoRun ==
    /\ pc = "start"
    /\ request.no_run
    /\ pc' = "handler_ctx"
    /\ UNCHANGED <<evars, request, cowvars, hvars, tasks, boot, notify_fd, pending, next_id, req, locals,
                   received, responses, evaluated, aux_budget, result>>

\* syscalls::recv_fd(rx): Ok stores the descriptor, Err only warns; rx is
\* closed afterwards either way
RecvFd ==
    /\ pc = "recv_fd"
    /\ \/ /\ "socket" \in notify_fd
          /\ notify_fd' = (notify_fd \ {"socket"}) \cup {"parent"}
          /\ UNCHANGED <<tasks, pending>>
       \/ drop_fd("socket")
    /\ pc' = "handler_ctx"
    /\ UNCHANGED <<evars, request, cowvars, hvars, boot, next_id, req, locals, received, responses,
                   evaluated, aux_budget, result>>

\* HandlerContext::new(data_dir)?
NewHandlerContext ==
    /\ pc = "handler_ctx"
    /\ IF request.redirect_map_ok
       THEN /\ pc' = IF tasks.child.st = "none" THEN "open_log" ELSE "fs_watcher"
            /\ UNCHANGED <<tasks, notify_fd, pending, result>>
       ELSE Return("Err")
    /\ UNCHANGED <<evars, request, cowvars, hvars, boot, next_id, req, locals, received, responses,
                   evaluated, aux_budget>>

\* `if live_config.fs { Some(FsWatcher::new(&request.prefix_root)?) }`
NewFsWatcher ==
    /\ pc = "fs_watcher"
    /\ \/ /\ pc' = "loop"
          /\ UNCHANGED <<tasks, notify_fd, pending, result>>
       \/ /\ live_config.fs
          /\ Return("Err")
    /\ UNCHANGED <<evars, request, cowvars, hvars, boot, next_id, req, locals, received, responses,
                   evaluated, aux_budget>>

\* `while child.try_wait()?.is_none()`
TryWait ==
    /\ pc = "loop"
    /\ \/ /\ tasks.child.st # "exited"
          /\ pc' = IF "parent" \in notify_fd THEN "poll" ELSE "sleep"
          /\ UNCHANGED result
       \/ /\ tasks.child.st = "exited"
          /\ pc' = "open_log"
          /\ UNCHANGED result
    /\ UNCHANGED <<evars, request, cowvars, hvars, tasks, boot, notify_fd, pending, next_id, req, locals,
                   received, responses, evaluated, aux_budget>>

\* try_wait fails: the child was reaped elsewhere
TryWaitErr ==
    /\ pc = "loop"
    /\ tasks.child.st = "exited"
    /\ Return("Err")
    /\ UNCHANGED <<evars, request, cowvars, hvars, boot, next_id, req, locals, received, responses,
                   evaluated, aux_budget>>

\* poll returns with POLLIN: a notification is waiting
PollIn ==
    /\ pc = "poll"
    /\ pending # {}
    /\ pc' = "recv_notif"
    /\ UNCHANGED <<evars, request, cowvars, hvars, tasks, boot, notify_fd, pending, next_id, req, locals,
                   received, responses, evaluated, aux_budget, result>>

\* poll returns 0: the timeout ran out
PollTimeout ==
    /\ pc = "poll"
    /\ poll_timeout = "finite"
    /\ pc' = "drain_fs"
    /\ UNCHANGED <<evars, request, cowvars, hvars, tasks, boot, notify_fd, pending, next_id, req, locals,
                   received, responses, evaluated, aux_budget, result>>

\* poll returns with POLLHUP and no POLLIN: no task uses the filter any more
PollHup ==
    /\ pc = "poll"
    /\ filter_unused
    /\ pc' = "drain_fs"
    /\ UNCHANGED <<evars, request, cowvars, hvars, tasks, boot, notify_fd, pending, next_id, req, locals,
                   received, responses, evaluated, aux_budget, result>>

\* poll fails (EINTR: a signal arrived)
PollErr ==
    /\ pc = "poll"
    /\ pc' = "drain_fs"
    /\ UNCHANGED <<evars, request, cowvars, hvars, tasks, boot, notify_fd, pending, next_id, req, locals,
                   received, responses, evaluated, aux_budget, result>>

\* no descriptor: sleep(poll interval) or sleep(100 ms)
Sleep ==
    /\ pc = "sleep"
    /\ pc' = "drain_fs"
    /\ UNCHANGED <<evars, request, cowvars, hvars, tasks, boot, notify_fd, pending, next_id, req, locals,
                   received, responses, evaluated, aux_budget, result>>

\* the task blocked on notification id
owner(id) == CHOOSE t \in DOMAIN tasks : tasks[t].st = "blocked" /\ tasks[t].nid = id

min_id(S) == CHOOSE i \in S : \A j \in S : i <= j

\* handle_notification, "1. Receive Notification": the ioctl returns the
\* oldest notification, or fails when it has vanished since poll
RecvNotif ==
    /\ pc = "recv_notif"
    /\ IF pending # {}
       THEN LET id == min_id(pending) IN
            /\ req' = Some([id |-> id, task |-> owner(id)])
            /\ locals' = NoLocals
            /\ pending' = pending \ {id}
            /\ received' = Append(received, id)
            /\ pc' = "analyse"
       ELSE /\ pc' = "drain_fs"
            /\ UNCHANGED <<req, locals, pending, received>>
    /\ UNCHANGED <<evars, request, cowvars, hvars, tasks, boot, notify_fd, next_id, responses,
                   evaluated, aux_budget, result>>

\* the task that raised r is still held in its syscall
held(r) == tasks[r.task].st = "blocked" /\ tasks[r.task].nid = r.id

\* handle_notification, steps 2 to 5: analyse the syscall
Analyse ==
    /\ pc = "analyse"
    /\ \E r \in Notifications(Unwrap(req).id, Unwrap(req).task) :
       LET a == analyse(r, held(r), handler_mapper, behavior_profile, context, config,
                        sacred_zones)
       IN  IF a.panic
           THEN /\ pc' = "panicked"
                /\ result' = "panic"
                /\ drop_fd("parent")
                /\ UNCHANGED <<evars, locals>>
           ELSE /\ pc' = "send"
                /\ locals' = [decision_action |-> a.decision_action,
                              path_redirect |-> a.path_redirect,
                              event_data |-> a.event_data, note |-> a.note,
                              resp |-> None]
                /\ behavior_profile' = a.profile
                /\ UNCHANGED <<sacred_zones, config, context, process_tracker, call,
                               decision, tasks, notify_fd, pending, result>>
    /\ UNCHANGED <<request, cowvars, hvars, boot, next_id, req, received, responses, evaluated, aux_budget>>

\* handle_notification, "6. Send Response", and the match on its result in
\* Monitor::run: the ioctl fails when the task is no longer held
SendResponse ==
    /\ pc = "send"
    /\ LET r == Unwrap(req)
           resp == build_response(r.id, locals.decision_action, locals.path_redirect)
           sent == held(r)
       IN  /\ responses' = Append(responses, resp)
           /\ locals' = [locals EXCEPT !.resp = Some(resp)]
           /\ tasks' = IF sent THEN [tasks EXCEPT ![r.task] = [st |-> "running", nid |-> 0]]
                       ELSE tasks
           /\ evaluated' = IF sent /\ IsSome(locals.event_data)
                           THEN Append(evaluated, Unwrap(locals.event_data))
                           ELSE evaluated
    /\ req' = None
    /\ pc' = "drain_fs"
    /\ UNCHANGED <<evars, request, cowvars, hvars, boot, notify_fd, pending, next_id, received,
                   aux_budget, result>>

Drains == <<"drain_fs", "drain_proc", "drain_net">>

drain_enabled(i) ==
    CASE i = 1 -> live_config.fs
      [] i = 2 -> live_config.proc
      [] i = 3 -> live_config.net

drain_events(i) ==
    CASE i = 1 -> FsEvents
      [] i = 2 -> ProcEvents
      [] i = 3 -> NetEvents

\* `let decision = self.policy.evaluate(&event, &policy_context);
\* evaluated.push(ReportEvent {attempt: event, decision})`
evaluate_and_push(e) ==
    /\ behavior_profile' =
           evaluate_profile(behavior_profile, e, context, config, sacred_zones)
    /\ evaluated' = Append(evaluated,
           ReportEvent(e, evaluate_decision(e, context, config, sacred_zones)))
    /\ UNCHANGED <<sacred_zones, config, context, process_tracker, call, decision>>

\* one event of the i-th watcher is evaluated and pushed
DrainEvent(i) ==
    /\ pc = Drains[i]
    /\ drain_enabled(i)
    /\ aux_budget > 0
    /\ \E e \in drain_events(i) : evaluate_and_push(e)
    /\ aux_budget' = aux_budget - 1
    /\ UNCHANGED <<request, cowvars, hvars, pc, tasks, boot, notify_fd, pending, next_id, req, locals,
                   received, responses, result>>

\* a loop that drains the net watcher before the proc watcher
DrainDoneNetFirst(i) ==
    /\ pc = Drains[i]
    /\ pc' = CASE i = 1 -> "drain_net"
               [] i = 3 -> "drain_proc"
               [] i = 2 -> "loop"
    /\ UNCHANGED <<evars, request, cowvars, hvars, tasks, boot, notify_fd, pending, next_id,
                   req, locals, received, responses, evaluated, aux_budget, result>>

\* the i-th watcher is off or has no more events
DrainDone(i) ==
    /\ pc = Drains[i]
    /\ pc' = IF i < Len(Drains) THEN Drains[i + 1] ELSE "loop"
    /\ UNCHANGED <<evars, request, cowvars, hvars, tasks, boot, notify_fd, pending, next_id, req, locals,
                   received, responses, evaluated, aux_budget, result>>

\* `match &request.event_log`
OpenEventLog ==
    /\ pc = "open_log"
    /\ IF request.event_log = Some("missing")
       THEN Return("Err")
       ELSE /\ pc' = "replay"
            /\ UNCHANGED <<tasks, notify_fd, pending, result>>
    /\ UNCHANGED <<evars, request, cowvars, hvars, boot, next_id, req, locals, received, responses,
                   evaluated, aux_budget>>

\* `while let Some(event) = source.next_event()?`: one replayed event
ReplayEvent ==
    /\ pc = "replay"
    /\ IsSome(request.event_log)
    /\ aux_budget > 0
    /\ \E e \in ReplayEvents : evaluate_and_push(e)
    /\ aux_budget' = aux_budget - 1
    /\ UNCHANGED <<request, cowvars, hvars, pc, tasks, boot, notify_fd, pending, next_id, req, locals,
                   received, responses, result>>

\* next_event fails on a malformed line
ReplayErr ==
    /\ pc = "replay"
    /\ IsSome(request.event_log)
    /\ Return("Err")
    /\ UNCHANGED <<evars, request, cowvars, hvars, boot, next_id, req, locals, received, responses,
                   evaluated, aux_budget>>

\* the source is exhausted: Ok(SessionReport::new(..))
Finish ==
    /\ pc = "replay"
    /\ Return("Ok")
    /\ UNCHANGED <<evars, request, cowvars, hvars, boot, next_id, req, locals, received, responses,
                   evaluated, aux_budget>>

\* the steps of the supervisor that need nothing but the processor
SupervisorStep ==
    \/ SpawnProcess \/ SpawnReturn \/ NoRun \/ RecvFd \/ NewHandlerContext
    \/ NewFsWatcher \/ TryWait \/ PollIn \/ PollTimeout \/ PollHup \/ Sleep
    \/ RecvNotif \/ Analyse \/ SendResponse
    \/ (\E i \in 1..Len(Drains) : DrainDone(i))
    \/ OpenEventLog \/ Finish

Next ==
    \/ SpawnProcess \/ PreExecStep \/ PreExecFail \/ Exec \/ SpawnReturn
    \/ NoRun \/ RecvFd \/ NewHandlerContext \/ NewFsWatcher
    \/ TryWait \/ TryWaitErr
    \/ PollIn \/ PollTimeout \/ PollHup \/ PollErr \/ Sleep
    \/ RecvNotif \/ Analyse \/ SendResponse
    \/ (\E i \in 1..Len(Drains) : DrainEvent(i))
    \/ (\E i \in 1..Len(Drains) : DrainDone(i))
    \/ OpenEventLog \/ ReplayEvent \/ ReplayErr \/ Finish
    \/ (\E t \in DOMAIN tasks : TaskSyscall(t))
    \/ (\E t \in DOMAIN tasks : TaskExit(t))
    \/ TaskFork

Spec == Init /\ [][Next]_vars

\* the operating system schedules the supervisor and the child's bootstrap
FairSpec ==
    Spec /\ WF_vars(SupervisorStep) /\ WF_vars(PreExecStep \/ PreExecFail \/ Exec)
\* ------------------------------------------------------------------------
\* evaluate_path on its own: every small path, prefix root and zone list
\* ------------------------------------------------------------------------
ZoneRules ==
    {<<"Allow", None>>, <<"Deny", None>>,
     <<"Redirect", None>>, <<"Redirect", Some(<<RootDir, "r">>)>>,
     <<"Virtualize", None>>, <<"Virtualize", Some(<<RootDir, "v">>)>>}

ZonePaths == {<<RootDir, "a">>, <<RootDir, "a", "b">>}

ZoneLabel(path) == IF Len(path) = 2 THEN "zone a" ELSE "zone a/b"

Zones == {Zone(ZoneLabel(zp), zp, rule[1], rule[2]) : zp \in ZonePaths, rule \in ZoneRules}

PrefixRoots == {<<RootDir, "a">>, <<RootDir, "b">>}

InitPath ==
    /\ sacred_zones \in SeqsUpTo(Zones, MaxZones)
    /\ config = DefaultConfig
    /\ context \in [prefix_root : PrefixRoots, trust_tier : {"Yellow"}]
    /\ NewEngine
    /\ request = PlainRequest
    /\ NotStarted
    /\ NewCopyOnWrite
    /\ NoSocketpair
    /\ NoHistory
    /\ NotServing
    /\ NoDnsCapture
    /\ NoTrustStore
    /\ NoParser

\* rules::filesystem::evaluate_path applied to one candidate path
EvaluatePath ==
    /\ call.op = "none"
    /\ \E path \in CandidatePaths :
          /\ decision' = Some(evaluate_path(path, context.prefix_root, sacred_zones))
          /\ call' = [op |-> "evaluate_path", arg |-> path]
    /\ UNCHANGED <<sacred_zones, config, context, behavior_profile, process_tracker, svars, cowvars, hvars>>

SpecPath == InitPath /\ [][EvaluatePath]_vars

\* ------------------------------------------------------------------------
\* The policy engine on its own: a client calls evaluate and
\* evaluate_process_spawn
\* ------------------------------------------------------------------------
TrustTiers == {"Green", "Yellow", "Red"}

NetworkConfigs == [mode : {"Observe", "Permissive"}, block_on_malicious : BOOLEAN]

\* the configuration of test_process_evaluation in rules/process.rs
TestProcessConfig ==
    [allowed_patterns |-> << <<"w","i","n","e","*">>, <<"*",".","e","x","e">> >>,
     blocked_patterns |-> << <<"*","n","c","*">> >>,
     max_child_processes |-> 10,
     allow_shell_execution |-> FALSE,
     allow_script_execution |-> FALSE]

\* that configuration, those that differ from it in one setting or in both
\* execution flags, and the default one
ProcessConfigs ==
    { TestProcessConfig,
      [TestProcessConfig EXCEPT !.allowed_patterns = <<>>],
      [TestProcessConfig EXCEPT !.blocked_patterns = <<>>],
      [TestProcessConfig EXCEPT !.max_child_processes = 0],
      [TestProcessConfig EXCEPT !.max_child_processes = 1],
      [TestProcessConfig EXCEPT !.allow_shell_execution = TRUE],
      [TestProcessConfig EXCEPT !.allow_script_execution = TRUE],
      [TestProcessConfig EXCEPT !.allow_shell_execution = TRUE,
                                !.allow_script_execution = TRUE],
      DefaultConfig.process }

ProcessNames ==
    { <<"w","i","n","e","6","4">>,          \* allowed by "wine*"
      <<"n","c",".","e","x","e">>,          \* blocked by "*nc*", allowed by "*.exe"
      <<"b","a","s","h">>,                  \* a shell
      <<"a","p","p",".","p","y">>,          \* a script
      <<"b","a","s","h",".","s","h">>,      \* a shell and a script
      <<"t","o","o","l">> }                 \* none of these

EngineAttempts ==
    { AccessAttempt("Network", NetworkTarget(<<93, 184, 216, 34>>, 443)),
      AccessAttempt("Write", PathTarget(PrefixRoot \o <<"save">>)),
      AccessAttempt("Read", PathTarget(HOME \o <<".ssh", "id">>)),
      AccessAttempt("Device", DeviceTarget("sda")) }

InitEngine ==
    /\ sacred_zones = DefaultZones
    /\ \/ /\ config \in [network : NetworkConfigs, process : {TestProcessConfig}]
          /\ context \in [prefix_root : {PrefixRoot}, trust_tier : TrustTiers]
       \/ /\ config \in [network : {DefaultConfig.network}, process : ProcessConfigs]
          /\ context = [prefix_root |-> PrefixRoot, trust_tier |-> "Yellow"]
    /\ NewEngine
    /\ request = PlainRequest
    /\ NotStarted
    /\ NewCopyOnWrite
    /\ NoSocketpair
    /\ NoHistory
    /\ NotServing
    /\ NoDnsCapture
    /\ NoTrustStore
    /\ NoParser

\* the calls the engine has counted
calls_counted ==
    behavior_profile.denied_attempts + behavior_profile.child_process_count
        + behavior_profile.unique_destinations + behavior_profile.file_modifications

Evaluate ==
    /\ calls_counted < MaxEvals
    /\ \E attempt \in EngineAttempts : evaluate(attempt)
    /\ UNCHANGED <<svars, cowvars, hvars>>

EvaluateProcessSpawn ==
    /\ calls_counted < MaxEvals
    /\ \E process \in ProcessNames : evaluate_process_spawn(process)
    /\ UNCHANGED <<svars, cowvars, hvars>>

NextEngine == Evaluate \/ EvaluateProcessSpawn

SpecEngine == InitEngine /\ [][NextEngine]_vars

\* ========================================================================
\* Properties
\* ========================================================================
LoopPcs == {"loop", "poll", "sleep", "recv_notif", "analyse", "send",
            "drain_fs", "drain_proc", "drain_net"}

response_ids == [j \in 1..Len(responses) |-> responses[j].id]

\* component-wise "p is under r", stated without SubSeq
under(p, r) == Len(r) <= Len(p) /\ \A i \in 1..Len(r) : p[i] = r[i]

in_seq(x, q) == \E i \in 1..Len(q) : q[i] = x

\* C1: whenever the supervisor is outside handle_notification, every id the
\* receive ioctl has returned has exactly one response with that id, and the
\* responses were sent in the order of the receipts.
C1_EveryNotificationAnswered ==
    pc \notin {"analyse", "send"} => response_ids = received

\* C2: the response sent is a function of the policy decision: Deny gives
\* error = EPERM without CONTINUE; Allow, Redirect and Virtualize give error = 0
\* with CONTINUE, with or without a mapper rule; it carries the id of the
\* notification and is the last response handed to the send ioctl.
C2_ResponseFollowsDecision ==
    (IsSome(locals.resp) /\ IsSome(locals.event_data)) =>
        LET resp == Unwrap(locals.resp)
            tag == Unwrap(locals.event_data).decision.action.tag
        IN  /\ responses # <<>> /\ responses[Len(responses)] = resp
            /\ resp.id = received[Len(received)]
            /\ tag = "Deny" =>
                   resp.error = EPERM /\ resp.flags # SECCOMP_USER_NOTIF_FLAG_CONTINUE
            /\ tag \in {"Allow", "Redirect", "Virtualize"} =>
                   resp.error = 0 /\ resp.flags = SECCOMP_USER_NOTIF_FLAG_CONTINUE

\* a Redirect decision with a mapper rule answered after a Deny was answered
C2_Witness ==
    /\ IsSome(locals.resp)
    /\ IsSome(locals.event_data)
    /\ Unwrap(locals.event_data).decision.action.tag = "Redirect"
    /\ IsSome(locals.path_redirect)
    /\ Len(responses) = 2
    /\ responses[1].error = EPERM

\* C3: an error while one notification is handled never ends the supervisor
\* loop: Monitor::run does not end between the receipt of a notification and
\* its response.
C3_HandlerErrorsKeepLoop ==
    IsSome(req) => result = "none"

position(x, q) == CHOOSE i \in 1..Len(q) : q[i] = x

\* the order the bootstrap has to keep
ordered_steps == <<"unshare", "bind_mounts", "landlock", "seccomp", "send_fd", "exec">>

\* C4: the target is executed only after, in this order, the mount namespace
\* was unshared, the bind mounts applied, the landlock ruleset committed, the
\* seccomp filter installed and the notify descriptor sent (each of these
\* steps runs only after the one before it); after a failed step nothing more
\* runs, and the target is not executed.
C4_BootstrapOrderedFailFast ==
    /\ \A k \in 2..Len(ordered_steps) :
          in_seq(ordered_steps[k], boot) =>
              /\ in_seq(ordered_steps[k - 1], boot)
              /\ position(ordered_steps[k - 1], boot) < position(ordered_steps[k], boot)
    /\ \A i \in 1..Len(boot) : boot[i] = "failed" => i = Len(boot)
    /\ in_seq("failed", boot) => tasks.child.st \in {"aborted", "exited"}

\* the child failed to send the descriptor: it has not executed the target
C4_Witness ==
    /\ Len(boot) = 7
    /\ boot[6] = "seccomp"
    /\ boot[7] = "failed"
    /\ tasks.child.st = "aborted"

\* C5: once the child has terminated the supervisor leaves its loop.
C5_LoopExitsAfterChild ==
    (tasks.child.st = "exited" /\ pc \in LoopPcs) ~> (pc \notin LoopPcs)

\* C6: once the child was spawned, Monitor::run ends only after the child
\* has terminated.
C6_ReturnsAfterChildExit ==
    (result # "none" /\ in_seq("exec", boot)) => tasks.child.st = "exited"

no_zone_matches(path) == \A i \in 1..Len(sacred_zones) : ~under(path, sacred_zones[i].path)

\* C7: when no zone matches the path, evaluate_path allows it without
\* systemic risk if it is under the prefix root, and denies it with systemic
\* risk and the reason "Access outside prefix blocked" if it is not.
C7_NoZoneDecidedByPrefix ==
    (call.op = "evaluate_path" /\ no_zone_matches(call.arg)) =>
        LET d == Unwrap(decision) IN
        IF under(call.arg, context.prefix_root)
        THEN d.action = Allow /\ ~d.systemic_risk
        ELSE /\ d.action = Deny
             /\ d.systemic_risk
             /\ d.reason[1] = "Access outside prefix blocked"

\* a path outside the prefix, with zones configured of which none matches
C7_Witness ==
    /\ call.op = "evaluate_path"
    /\ sacred_zones # <<>>
    /\ no_zone_matches(call.arg)
    /\ ~under(call.arg, context.prefix_root)
    /\ Unwrap(decision).action = Deny

first_matching_zone(path) ==
    sacred_zones[CHOOSE i \in 1..Len(sacred_zones) :
                    /\ under(path, sacred_zones[i].path)
                    /\ \A j \in 1..(i - 1) : ~under(path, sacred_zones[j].path)]

\* C8: the first zone in configuration order whose path is a prefix of the
\* candidate decides, whatever follows it and wherever the prefix root is; its
\* action becomes the decision action, Redirect and Virtualize with the
\* zone's redirect_to or the default.
C8_FirstZoneDecides ==
    (call.op = "evaluate_path" /\ ~no_zone_matches(call.arg)) =>
        LET d == Unwrap(decision)
            z == first_matching_zone(call.arg)
            to == IF z.redirect_to = None THEN fallback_redirect ELSE z.redirect_to[1]
        IN  /\ d.zone_label = Some(z.label)
            /\ d.action.tag = z.action
            /\ z.action \in {"Redirect", "Virtualize"} => d.action.to = Some(to)
            /\ z.action \in {"Allow", "Deny"} => d.action.to = None

\* two zones match a path under the prefix root; the first denies, the
\* second allows
C8_Witness ==
    /\ call.op = "evaluate_path"
    /\ Len(sacred_zones) = 2
    /\ under(call.arg, sacred_zones[1].path)
    /\ under(call.arg, sacred_zones[2].path)
    /\ sacred_zones[1].action = "Deny"
    /\ sacred_zones[2].action = "Allow"
    /\ under(call.arg, context.prefix_root)
    /\ Unwrap(decision).action = Deny

\* C9: for a network target the decision is Deny with systemic risk exactly
\* when the tier is Red and block_on_malicious is set; otherwise it is Allow
\* without systemic risk.
C9_NetworkDeniedIffRedAndBlocking ==
    (call.op = "evaluate" /\ call.arg.target.tag = "Network") =>
        LET d == Unwrap(decision) IN
        IF context.trust_tier = "Red" /\ config.network.block_on_malicious
        THEN d.action = Deny /\ d.systemic_risk
        ELSE d.action = Allow /\ ~d.systemic_risk

\* a Red session that blocks: the connection is denied
C9_Witness ==
    /\ call.op = "evaluate"
    /\ call.arg.target.tag = "Network"
    /\ context.trust_tier = "Red"
    /\ config.network.block_on_malicious
    /\ config.network.mode = "Permissive"
    /\ Unwrap(decision).action = Deny

some_pattern_matches(process, patterns) ==
    \E i \in 1..Len(patterns) : matches_pattern(process, patterns[i])

\* the check of evaluate_process_spawn that decides, by the order of the list
deciding_check(process, cfg, tracker) ==
    IF tracker.child_count >= cfg.max_child_processes THEN "limit"
    ELSE IF some_pattern_matches(process, cfg.blocked_patterns) THEN "blocked"
    ELSE IF is_shell(process) /\ ~cfg.allow_shell_execution THEN "shell"
    ELSE IF is_script(process) /\ ~cfg.allow_script_execution THEN "script"
    ELSE IF cfg.allowed_patterns # <<>>
            /\ ~some_pattern_matches(process, cfg.allowed_patterns) THEN "not allowed"
    ELSE "allow"

reason_of_check(check) ==
    CASE check = "limit" -> "Child process limit exceeded (max: {})"
      [] check = "blocked" -> "Process blocked by pattern '{}'"
      [] check = "shell" -> "Shell execution not allowed"
      [] check = "script" -> "Script execution not allowed"
      [] check = "not allowed" -> "Process '{}' not in allowed patterns"
      [] check = "allow" -> "Process allowed: {}"

count_of(counts, key) == IF key \in DOMAIN counts THEN counts[key] ELSE 0

\* C10: a call of evaluate_process_spawn is decided by the first check that
\* applies, in the order limit, blocked pattern, shell, script, allowed
\* patterns, Allow; Allow appends the name to tracker.allowed and adds one to
\* child_count and to the count of the name; a denial leaves child_count as
\* it was.
C10_SpawnChecksInOrder ==
    [][call'.op = "evaluate_process_spawn" =>
          LET process == call'.arg
              check == deciding_check(process, config.process, process_tracker)
              d == Unwrap(decision')
          IN  /\ d.reason[1] = reason_of_check(check)
              /\ d.action = IF check = "allow" THEN Allow ELSE Deny
              /\ IF check = "allow"
                 THEN /\ process_tracker'.allowed = Append(process_tracker.allowed, process)
                      /\ process_tracker'.child_count = process_tracker.child_count + 1
                      /\ count_of(process_tracker'.process_counts, process) =
                             count_of(process_tracker.process_counts, process) + 1
                 ELSE /\ process_tracker'.child_count = process_tracker.child_count
                      /\ process_tracker'.allowed = process_tracker.allowed
       ]_vars

\* after one child was allowed, a name that is a shell and a script is
\* denied as a shell
C10_Witness ==
    /\ call.op = "evaluate_process_spawn"
    /\ call.arg = <<"b","a","s","h",".","s","h">>
    /\ process_tracker.child_count = 1
    /\ Unwrap(decision).reason[1] = "Shell execution not allowed"

\* C11: in every state reached by evaluate_process_spawn calls from a new
\* tracker under a fixed configuration, child_count is at most
\* max_child_processes; and a spawn evaluated while child_count equals the
\* limit is denied for the limit and leaves the tracker as it was.
C11_ChildCountWithinLimit ==
    /\ [](process_tracker.child_count <= config.process.max_child_processes)
    /\ [][(/\ process_tracker.child_count = config.process.max_child_processes
           /\ call'.op = "evaluate_process_spawn")
          => /\ Unwrap(decision').action = Deny
             /\ Unwrap(decision').reason[1] = "Child process limit exceeded (max: {})"
             /\ process_tracker' = process_tracker]_vars

C11_Witness ==
    /\ call.op = "evaluate_process_spawn"
    /\ config.process.max_child_processes = 1
    /\ process_tracker.child_count = 1
    /\ Len(process_tracker.allowed) = 1
    /\ IsSome(decision)
    /\ Unwrap(decision).reason[1] = "Child process limit exceeded (max: {})"

\* ------------------------------------------------------------------------
\* matches_pattern on its own: every short name and pattern
\* ------------------------------------------------------------------------
\* characters of a process name: two letters and an upper-case one
NameChars == {"a", "b", "A"}

PatternNames == SeqsUpTo(NameChars, MaxNameLen)

Patterns == SeqsUpTo(NameChars \cup {"*"}, MaxPatternLen)

InitPattern ==
    /\ sacred_zones = DefaultZones
    /\ config = DefaultConfig
    /\ context = [prefix_root |-> PrefixRoot, trust_tier |-> "Yellow"]
    /\ behavior_profile = NewBehaviorProfile
    /\ process_tracker = NewProcessTracker
    /\ \E name \in PatternNames, pattern \in Patterns :
          call = [op |-> "none", arg |-> <<name, pattern>>]
    /\ decision = None
    /\ request = PlainRequest
    /\ NotStarted
    /\ NewCopyOnWrite
    /\ NoSocketpair
    /\ NoHistory
    /\ NotServing
    /\ NoDnsCapture
    /\ NoTrustStore
    /\ NoParser

\* one call matches_pattern(name, pattern); decision holds what it returned
MatchesPattern ==
    /\ call.op = "none"
    /\ decision' = Some(matches_pattern(call.arg[1], call.arg[2]))
    /\ call' = [call EXCEPT !.op = "matches_pattern"]
    /\ UNCHANGED <<sacred_zones, config, context, behavior_profile, process_tracker, svars, cowvars, hvars>>

SpecPattern == InitPattern /\ [][MatchesPattern]_vars

\* reference wildcard matcher: `*` stands for any run of characters, every
\* other character for itself, and the whole name must be consumed
RECURSIVE wildcard_match(_, _)
wildcard_match(name, pattern) ==
    IF pattern = <<>> THEN name = <<>>
    ELSE IF Head(pattern) = "*" THEN
        \/ wildcard_match(name, Tail(pattern))
        \/ (name # <<>> /\ wildcard_match(Tail(name), pattern))
    ELSE
        /\ name # <<>>
        /\ Head(name) = Head(pattern)
        /\ wildcard_match(Tail(name), Tail(pattern))

\* C12: matches_pattern(name, pattern) returns true exactly when the
\* lower-cased name matches the lower-cased pattern under the reference
\* wildcard semantics.
C12_MatchesPatternIsWildcard ==
    call.op = "matches_pattern" =>
        Unwrap(decision) = wildcard_match(to_lowercase(call.arg[1]),
                                          to_lowercase(call.arg[2]))

\* ------------------------------------------------------------------------
\* The path mapper on its own: every short list of mappings and path
\* ------------------------------------------------------------------------
\* sources of different byte and component lengths, nested and not
MappingSources ==
    {<<RootDir>>, <<RootDir, "a">>, <<RootDir, "a", "b">>, <<RootDir, "home">>, <<"a">>}

MappingDests == {<<RootDir, "x">>, <<RootDir, "y">>}

MappingLists == SeqsUpTo(MappingSources \X MappingDests, MaxMappings)

MappedPaths == CandidatePaths \cup {<<RootDir, "home", "a">>}

InitMapper ==
    /\ sacred_zones = DefaultZones
    /\ config = DefaultConfig
    /\ context = [prefix_root |-> PrefixRoot, trust_tier |-> "Yellow"]
    /\ behavior_profile = NewBehaviorProfile
    /\ process_tracker = NewProcessTracker
    /\ \E mappings \in MappingLists, original \in MappedPaths :
          call = [op |-> "none", arg |-> <<mappings, original>>]
    /\ decision = None
    /\ request = PlainRequest
    /\ NotStarted
    /\ NewCopyOnWrite
    /\ NoSocketpair
    /\ NoHistory
    /\ NotServing
    /\ NoDnsCapture
    /\ NoTrustStore
    /\ NoParser

\* PathMapper::with_mappings(mappings).map_path(original); decision holds the
\* Option it returned
MapPath ==
    /\ call.op = "none"
    /\ decision' = Some(map_path(with_mappings(call.arg[1]), call.arg[2]))
    /\ call' = [call EXCEPT !.op = "map_path"]
    /\ UNCHANGED <<sacred_zones, config, context, behavior_profile, process_tracker, svars, cowvars, hvars>>

SpecMapper == InitMapper /\ [][MapPath]_vars

\* the mappings of a list whose source is a path-prefix of p
prefix_mappings(mappings, p) ==
    {i \in 1..Len(mappings) : starts_with(p, mappings[i][1])}

\* C13: map_path returns none when no source is a path-prefix of the path,
\* and otherwise the destination of a mapping whose source is a path-prefix
\* with the most components among those, joined with the rest of the path.
C13_LongestPrefixWins ==
    call.op = "map_path" =>
        LET mappings == call.arg[1]
            p == call.arg[2]
            applicable == prefix_mappings(mappings, p)
            ret == Unwrap(decision)
        IN  IF applicable = {} THEN ret = None
            ELSE \E i \in applicable :
                    /\ \A j \in applicable :
                          Len(mappings[j][1]) <= Len(mappings[i][1])
                    /\ ret = Some(mappings[i][2]
                                   \o SubSeq(p, Len(mappings[i][1]) + 1, Len(p)))

\* the shortest applicable source is listed first and the longest last
C13_Witness ==
    /\ call.op = "map_path"
    /\ call.arg[1] = << <<(<<RootDir>>), <<RootDir, "x">> >>,
                        << <<RootDir, "home">>, <<RootDir, "x">> >>,
                        << <<RootDir, "a", "b">>, <<RootDir, "y">> >> >>
    /\ call.arg[2] = <<RootDir, "a", "b">>
    /\ decision = Some(Some(<<RootDir, "y">>))

\* ------------------------------------------------------------------------
\* One CopyOnWrite tracker: a client calls resolve_write_path
\* ------------------------------------------------------------------------
CowOriginals == {<<RootDir, "a">>, <<RootDir, "a", "b">>, <<RootDir, "b">>}

CowVirtuals == {<<RootDir, "v", "a">>, <<RootDir, "v", "b">>}

FileKinds == {"absent", "dir", "file"}

InitCow ==
    /\ sacred_zones = DefaultZones
    /\ config = DefaultConfig
    /\ context = [prefix_root |-> PrefixRoot, trust_tier |-> "Yellow"]
    /\ NewEngine
    /\ request = PlainRequest
    /\ NotStarted
    /\ NewCopyOnWrite
    /\ NoSocketpair
    /\ NoHistory
    /\ NotServing
    /\ NoDnsCapture
    /\ NoTrustStore
    /\ NoParser

\* one call resolve_write_path(original, virtual_path, is_write) on the
\* tracker, with the filesystem in any condition; decision holds the Result
ResolveWritePath ==
    \E original \in CowOriginals, virtual_path \in CowVirtuals,
       is_write \in BOOLEAN, kind \in FileKinds, io_ok \in BOOLEAN :
        LET r == resolve_write_path(copied, original, virtual_path, is_write, kind, io_ok)
        IN  /\ copied' = r.copied
            /\ decision' = Some(r.ret)
            /\ call' = [op |-> "resolve_write_path",
                        arg |-> <<original, virtual_path, is_write>>]
            /\ UNCHANGED <<sacred_zones, config, context, behavior_profile,
                           process_tracker, svars, hvars>>

SpecCow == InitCow /\ [][ResolveWritePath]_vars

\* C14: every materialized original keeps its stored path across any call;
\* a call for a materialized original returns that stored path whatever
\* virtual path and is_write flag it passes; a read-only call for an
\* original that is not materialized returns the virtual path given and
\* records nothing; and an original is recorded only by a write resolve
\* that succeeds, under the path that call returns.
C14_MaterializedPathIsConstant ==
    [][call'.op = "resolve_write_path" =>
        LET original == call'.arg[1]
            virtual_path == call'.arg[2]
            is_write == call'.arg[3]
            ret == Unwrap(decision')
        IN  /\ \A o \in DOMAIN copied : o \in DOMAIN copied' /\ copied'[o] = copied[o]
            /\ original \in DOMAIN copied =>
                  ret = Ok(copied[original]) /\ copied' = copied
            /\ (original \notin DOMAIN copied /\ ~is_write) =>
                  ret = Ok(virtual_path) /\ copied' = copied
            /\ \A o \in (DOMAIN copied') \ (DOMAIN copied) :
                  o = original /\ is_write /\ ret = Ok(copied'[o])
      ]_vars

\* /a was materialized under /v/a; a later write resolve of /a that passes
\* /v/b is answered with /v/a
C14_Witness ==
    /\ call = [op |-> "resolve_write_path",
               arg |-> << <<RootDir, "a">>, <<RootDir, "v", "b">>, TRUE >>]
    /\ <<RootDir, "a">> \in DOMAIN copied
    /\ copied[<<RootDir, "a">>] = <<RootDir, "v", "a">>
    /\ decision = Some(Ok(<<RootDir, "v", "a">>))

\* ------------------------------------------------------------------------
\* The trust scorer on its own: a client records events on a behavior
\* profile and computes the trust score
\* ------------------------------------------------------------------------
SensitivePath == "/home/user/.ssh"
SuspiciousHost == "suspicious.com"
ChildName == "child.exe"
DenialReason == <<"Access denied: {}", "SSH keys">>
ModifiedPath == "/prefix/save"

record_event(p, event) ==
    CASE event = "sensitive_path" -> record_sensitive_path(p, SensitivePath)
      [] event = "outbound_connection" -> record_outbound_connection(p, SuspiciousHost)
      [] event = "child_process" -> record_child_process(p, ChildName)
      [] event = "file_modification" -> record_file_modification(p, ModifiedPath)
      [] event = "denied_attempt" -> record_denied_attempt(p, DenialReason)

over(n, threshold) == IF n > threshold THEN n - threshold ELSE 0

\* the profile left on a new profile by s record_sensitive_path calls, then
\* u record_outbound_connection, c record_child_process,
\* f record_file_modification and d record_denied_attempt calls
recorded(s, u, c, f, d) ==
    [sensitive_path_attempts |-> s, unique_destinations |-> u,
     dns_query_count |-> 0, child_process_count |-> c,
     file_modifications |-> f, denied_attempts |-> d,
     suspicious_patterns |->
         [i \in 1..s |-> <<"Accessed: ", SensitivePath, "">>]
         \o [i \in 1..over(u, 10) |-> <<"Many connections: ", SuspiciousHost, "">>]
         \o [i \in 1..over(c, 20) |-> <<"Process spawning: ", ChildName, "">>]
         \o [i \in 1..d |-> <<"Blocked: ", DenialReason[1], DenialReason[2]>>]]

\* profiles on both sides of every threshold of the scorer
ScoredProfiles ==
    {recorded(s, u, c, f, d) :
        s \in {0, 1, 8}, u \in {0, 11}, c \in {0, 12}, f \in {0, 200},
        d \in {0, 1, 4, 5, 6, 11, 25, 26}}

events_recorded(p) ==
    p.sensitive_path_attempts + p.unique_destinations + p.child_process_count
        + p.file_modifications + p.denied_attempts

InitScore ==
    /\ sacred_zones = DefaultZones
    /\ config = DefaultConfig
    /\ context = [prefix_root |-> PrefixRoot, trust_tier |-> "Yellow"]
    /\ behavior_profile \in ScoredProfiles
    /\ process_tracker = NewProcessTracker
    /\ call = [op |-> "none", arg |-> <<>>]
    /\ decision = None
    /\ request = PlainRequest
    /\ NotStarted
    /\ NewCopyOnWrite
    /\ NoSocketpair
    /\ NoHistory
    /\ NotServing
    /\ NoDnsCapture
    /\ NoTrustStore
    /\ NoParser

\* one record_* call on the profile; a score is derived, never stored
Record(event) ==
    /\ events_recorded(behavior_profile) < MaxRecords
    /\ behavior_profile' = record_event(behavior_profile, event)
    /\ call' = [op |-> "record", arg |-> event]
    /\ decision' = None
    /\ UNCHANGED <<sacred_zones, config, context, process_tracker, svars, cowvars, hvars>>

\* PolicyEngine::calculate_trust_score(current_tier); decision holds the
\* TrustScore it returned
CalculateTrustScore ==
    /\ \E current_tier \in TrustTiers :
          /\ decision' = Some(calculate_trust_score(current_tier, behavior_profile,
                                                    DefaultTrustScoringConfig))
          /\ call' = [op |-> "calculate_trust_score", arg |-> current_tier]
    /\ UNCHANGED <<sacred_zones, config, context, behavior_profile, process_tracker,
                   svars, cowvars, hvars>>

RecordedEvents ==
    {"sensitive_path", "outbound_connection", "child_process", "file_modification",
     "denied_attempt"}

NextScore ==
    \/ \E event \in RecordedEvents : Record(event)
    \/ CalculateTrustScore

SpecScore == InitScore /\ [][NextScore]_vars

\* C15: every computed trust score lies in 0..100, and its recommended tier
\* is Red for 0..25, Yellow for 26..75 and Green for 76..100.
C15_ScoreInRangeTierByBands ==
    call.op = "calculate_trust_score" =>
        LET ts == Unwrap(decision)
        IN  /\ ts.score \in 0..100
            /\ ts.score <= 25 => ts.recommended_tier = "Red"
            /\ (26 <= ts.score /\ ts.score <= 75) => ts.recommended_tier = "Yellow"
            /\ 76 <= ts.score => ts.recommended_tier = "Green"

\* a score on the upper edge of the Red band
C15_Witness ==
    /\ call.op = "calculate_trust_score"
    /\ Unwrap(decision).score = 25
    /\ Unwrap(decision).recommended_tier = "Red"

\* C16: the trust score is the signed sum of the scorer clamped to 0..100:
\* a sum of zero or less gives score 0 and tier Red, a sum of 100 or more
\* gives 100, and any other sum is the score.
C16_ScoreIsClampedSignedSum ==
    call.op = "calculate_trust_score" =>
        LET ts == Unwrap(decision)
            sum == signed_score(call.arg, behavior_profile, DefaultTrustScoringConfig)
        IN  /\ sum <= 0 => (ts.score = 0 /\ ts.recommended_tier = "Red")
            /\ (0 < sum /\ sum < 100) => ts.score = sum
            /\ sum >= 100 => ts.score = 100

\* C17: the score computed after one more denied attempt is recorded on the
\* profile is at most the score computed on the profile.
C17_DenialNeverRaisesScore ==
    call.op = "calculate_trust_score" =>
        calculate_trust_score(call.arg,
                              record_denied_attempt(behavior_profile, DenialReason),
                              DefaultTrustScoringConfig).score
            <= Unwrap(decision).score

\* the profile of scenario S5 after its two record calls
S5Profile ==
    record_outbound_connection(
        record_sensitive_path(NewBehaviorProfile, SensitivePath), SuspiciousHost)

\* C18: scenario S5 as stated: the clean profile at Yellow scores at least
\* 70 and is not flagged; the score of the profile with one sensitive path
\* and one connection at Yellow has is_suspicious set and notes.
C18_ScenarioS5 ==
    (call.op = "calculate_trust_score" /\ call.arg = "Yellow") =>
        LET ts == Unwrap(decision)
        IN  /\ behavior_profile = NewBehaviorProfile =>
                  (ts.score >= 70 /\ ~ts.is_suspicious)
            /\ behavior_profile = S5Profile =>
                  (ts.is_suspicious /\ ts.notes # <<>>)

\* C18, amended: after the two record calls it is the profile that is
\* suspicious; the score is 72 with notes, and its own is_suspicious flag,
\* which is score < 50, is not set.
C18_ScenarioS5ProfileSuspicious ==
    (call.op = "calculate_trust_score" /\ call.arg = "Yellow") =>
        LET ts == Unwrap(decision)
        IN  /\ behavior_profile = NewBehaviorProfile =>
                  (ts.score >= 70 /\ ~ts.is_suspicious)
            /\ behavior_profile = S5Profile =>
                  /\ is_suspicious(behavior_profile)
                  /\ ts.notes # <<>>
                  /\ ts.score = 72
                  /\ ~ts.is_suspicious

C18_Witness ==
    /\ call = [op |-> "calculate_trust_score", arg |-> "Yellow"]
    /\ behavior_profile = S5Profile
    /\ Len(Unwrap(decision).notes) = 2

\* ------------------------------------------------------------------------
\* The policy engine late in a session: the client has already evaluated
\* SeedConnections network attempts, or none
\* ------------------------------------------------------------------------
SeedConnections == 10

NetworkAttempt == AccessAttempt("Network", NetworkTarget(<<93, 184, 216, 34>>, 443))

NonUtf8Write == AccessAttempt("Write", PathTarget(PrefixRoot \o <<NonUtf8Name>>))

TrackedAttempts == EngineAttempts \cup {NonUtf8Write}

\* the behavior profile after n calls of evaluate with the network attempt
RECURSIVE connections_made(_, _, _, _)
connections_made(n, ctx, cfg, zones) ==
    IF n = 0 THEN NewBehaviorProfile
    ELSE evaluate_profile(connections_made(n - 1, ctx, cfg, zones), NetworkAttempt,
                          ctx, cfg, zones)

\* the behavior profile the model's session started with
session_start(p, ctx, cfg, zones) ==
    IF p.unique_destinations >= SeedConnections
    THEN connections_made(SeedConnections, ctx, cfg, zones)
    ELSE NewBehaviorProfile

calls_of(p) ==
    p.denied_attempts + p.child_process_count + p.unique_destinations
        + p.file_modifications

calls_left ==
    calls_of(behavior_profile)
        < calls_of(session_start(behavior_profile, context, config, sacred_zones))
              + MaxEvals

InitTracking ==
    /\ sacred_zones = DefaultZones
    /\ config \in [network : NetworkConfigs, process : {TestProcessConfig}]
    /\ context \in [prefix_root : {PrefixRoot}, trust_tier : TrustTiers]
    /\ \E n \in {0, SeedConnections} :
          behavior_profile = connections_made(n, context, config, sacred_zones)
    /\ process_tracker = NewProcessTracker
    /\ call = [op |-> "none", arg |-> <<>>]
    /\ decision = None
    /\ request = PlainRequest
    /\ NotStarted
    /\ NewCopyOnWrite
    /\ NoSocketpair
    /\ NoHistory
    /\ NotServing
    /\ NoDnsCapture
    /\ NoTrustStore
    /\ NoParser

TrackedEvaluate ==
    /\ calls_left
    /\ \E attempt \in TrackedAttempts : evaluate(attempt)
    /\ UNCHANGED <<svars, cowvars, hvars>>

TrackedProcessSpawn ==
    /\ calls_left
    /\ \E process \in ProcessNames : evaluate_process_spawn(process)
    /\ UNCHANGED <<svars, cowvars, hvars>>

NextTracking == TrackedEvaluate \/ TrackedProcessSpawn

SpecTracking == InitTracking /\ [][NextTracking]_vars

is_prefix(s, t) == Len(s) <= Len(t) /\ SubSeq(t, 1, Len(s)) = s

\* C19: over any sequence of PolicyEngine::evaluate and evaluate_process_spawn
\* calls no counter of the behavior profile and no count of the process
\* tracker decreases, and the suspicious-pattern, allowed and denied lists
\* keep what they held, in order, with new entries only at the end.
C19_TrackersMonotonic ==
    [][/\ behavior_profile'.sensitive_path_attempts
              >= behavior_profile.sensitive_path_attempts
       /\ behavior_profile'.unique_destinations >= behavior_profile.unique_destinations
       /\ behavior_profile'.dns_query_count >= behavior_profile.dns_query_count
       /\ behavior_profile'.child_process_count >= behavior_profile.child_process_count
       /\ behavior_profile'.file_modifications >= behavior_profile.file_modifications
       /\ behavior_profile'.denied_attempts >= behavior_profile.denied_attempts
       /\ is_prefix(behavior_profile.suspicious_patterns,
                    behavior_profile'.suspicious_patterns)
       /\ process_tracker'.child_count >= process_tracker.child_count
       /\ \A name \in DOMAIN process_tracker.process_counts :
             /\ name \in DOMAIN process_tracker'.process_counts
             /\ process_tracker'.process_counts[name]
                    >= process_tracker.process_counts[name]
       /\ is_prefix(process_tracker.allowed, process_tracker'.allowed)
       /\ is_prefix(process_tracker.denied, process_tracker'.denied)]_vars

\* a session in which every kind of list has grown: connections past the
\* threshold, a denied attempt, an allowed and a denied process
C19_Witness ==
    /\ call.op = "evaluate_process_spawn"
    /\ behavior_profile.unique_destinations > 10
    /\ behavior_profile.denied_attempts >= 1
    /\ Len(behavior_profile.suspicious_patterns) >= 2
    /\ Len(process_tracker.allowed) = 1
    /\ Len(process_tracker.denied) = 1

\* C20: a call of PolicyEngine::evaluate adds one to file_modifications iff
\* the attempt is a Write on a path, one to unique_destinations iff the
\* target is a network target, one to denied_attempts together with the
\* decision's reason at the end of the suspicious patterns iff the decision
\* is Deny, and changes nothing else of the profile and nothing of the
\* process tracker.
C20_EvaluateFrame ==
    [][call'.op = "evaluate" =>
          LET attempt == call'.arg
              deny == Unwrap(decision').action.tag = "Deny"
              reason == Unwrap(decision').reason
              p == behavior_profile
          IN  /\ behavior_profile' =
                   [p EXCEPT
                      !.file_modifications =
                          IF attempt.kind = "Write" /\ attempt.target.tag = "Path"
                          THEN @ + 1 ELSE @,
                      !.unique_destinations =
                          IF attempt.target.tag = "Network" THEN @ + 1 ELSE @,
                      !.denied_attempts = IF deny THEN @ + 1 ELSE @,
                      !.suspicious_patterns =
                          IF deny THEN Append(@, <<"Blocked: ", reason[1], reason[2]>>)
                          ELSE @]
              /\ process_tracker' = process_tracker]_vars

\* C20 (amended): as above, except that a Write counts only when its path is
\* valid UTF-8, and that a network target which takes unique_destinations
\* past 10 puts a "Many connections" pattern on the list, before the reason
\* of a Deny.
C20_EvaluateFrameExact ==
    [][call'.op = "evaluate" =>
          LET attempt == call'.arg
              deny == Unwrap(decision').action.tag = "Deny"
              reason == Unwrap(decision').reason
              network == attempt.target.tag = "Network"
              p == behavior_profile
          IN  /\ behavior_profile' =
                   [p EXCEPT
                      !.file_modifications =
                          IF /\ attempt.kind = "Write"
                             /\ attempt.target.tag = "Path"
                             /\ \A i \in 1..Len(attempt.target.val) :
                                   attempt.target.val[i] # NonUtf8Name
                          THEN @ + 1 ELSE @,
                      !.unique_destinations = IF network THEN @ + 1 ELSE @,
                      !.denied_attempts = IF deny THEN @ + 1 ELSE @,
                      !.suspicious_patterns =
                          @ \o (IF network /\ p.unique_destinations + 1 > 10
                                THEN << <<"Many connections: ",
                                          attempt.target.val[1], "">> >>
                                ELSE <<>>)
                            \o (IF deny
                                THEN << <<"Blocked: ", reason[1], reason[2]>> >>
                                ELSE <<>>)]
              /\ process_tracker' = process_tracker]_vars

\* a Write on a path that is not valid UTF-8 has just been evaluated, in a
\* session whose eleventh connection has been recorded
C20_Witness ==
    /\ call.op = "evaluate"
    /\ call.arg = NonUtf8Write
    /\ behavior_profile.file_modifications = 0
    /\ behavior_profile.unique_destinations = 11
    /\ \E i \in 1..Len(behavior_profile.suspicious_patterns) :
          behavior_profile.suspicious_patterns[i][1] = "Many connections: "

Families == {<<2, 0>>, <<10, 0>>, <<1, 0>>, <<2, 1>>}
Ports == {<<1, 187>>, <<0, 80>>, <<187, 1>>}
Ipv4s == {<<93, 184, 216, 34>>, <<127, 0, 0, 1>>}

\* sockaddr bytes in child memory: family, port, address, padding
HandlerSockAddrs == {f \o p \o a \o zeros(20) : f \in Families, p \in Ports, a \in Ipv4s}

AddrLens == {Length(0), Length(1), Length(7), Length(8), Length(16), Length(24),
             Length(28), OverIsizeMax}

NetNotifs ==
    {Notif(1, "child", nr, 3, len, Mem(b, m, <<>>, TRUE, TRUE)) :
        nr \in {SYS_CONNECT, SYS_BIND}, len \in AddrLens,
        b \in HandlerSockAddrs, m \in {0, MAPPED_BYTES}}

InitHandler ==
    /\ sacred_zones = SessionZones
    /\ config \in [network : NetworkConfigs, process : {DefaultConfig.process}]
    /\ context \in [prefix_root : {PrefixRoot}, trust_tier : TrustTiers]
    /\ NewEngine
    /\ request = PlainRequest
    /\ NotStarted
    /\ NewCopyOnWrite
    /\ NoSocketpair
    /\ NoHistory
    /\ NotServing
    /\ NoDnsCapture
    /\ NoTrustStore
    /\ NoParser

\* handle_notification from the receive ioctl to its return; the task may
\* vanish before its memory is read or before the response is sent
HandleNotification ==
    /\ received = <<>>
    /\ \E r \in NetNotifs, at_read \in BOOLEAN, at_send \in BOOLEAN :
          /\ at_send => at_read
          /\ LET a == analyse(r, at_read, handler_mapper, behavior_profile, context,
                              config, sacred_zones)
                 resp == build_response(r.id, a.decision_action, a.path_redirect)
             IN  /\ received' = Append(received, r.id)
                 /\ call' = [op |-> "handle_notification",
                             arg |-> [notif |-> r, at_read |-> at_read,
                                      at_send |-> at_send]]
                 /\ IF a.panic
                    THEN /\ result' = "panic"
                         /\ decision' = None
                         /\ UNCHANGED <<behavior_profile, responses, evaluated, locals>>
                    ELSE /\ behavior_profile' = a.profile
                         /\ responses' = Append(responses, resp)
                         /\ locals' = [decision_action |-> a.decision_action,
                                       path_redirect |-> a.path_redirect,
                                       event_data |-> a.event_data, note |-> a.note,
                                       resp |-> Some(resp)]
                         /\ decision' = IF IsSome(a.event_data)
                                        THEN Some(Unwrap(a.event_data).decision)
                                        ELSE None
                         /\ evaluated' = IF at_send /\ IsSome(a.event_data)
                                         THEN Append(evaluated, Unwrap(a.event_data))
                                         ELSE evaluated
                         /\ UNCHANGED result
    /\ UNCHANGED <<sacred_zones, config, context, process_tracker, request, pc, tasks,
                   boot, notify_fd, pending, next_id, req, aux_budget, cowvars, hvars>>

SpecHandler == InitHandler /\ [][HandleNotification]_vars

\* the first n bytes at the pointer of a notification
addr_bytes(r) ==
    [i \in 1..r.addrlen.low |-> IF i <= Len(r.mem.bytes) THEN r.mem.bytes[i] ELSE 0]

fully_readable(arg) ==
    /\ ~arg.notif.addrlen.over_isize
    /\ arg.at_read
    /\ arg.notif.mem.mapped >= arg.notif.addrlen.low

\* C22: for a connect or bind notification whose addrlen bytes are readable,
\* at least 8 of them and of family AF_INET, the handler evaluates one Network
\* attempt whose port is bytes [2..4] read big-endian and whose host is the
\* four octets of bytes [4..8], and hands one response with the
\* notification's id to the send ioctl; for a family other than AF_INET and
\* AF_INET6 it evaluates nothing and the response lets the call continue.
C22_Ipv4SockaddrEvaluatedOnce ==
    (call.op = "handle_notification" /\ fully_readable(call.arg)) =>
        LET r == call.arg.notif
            data == addr_bytes(r)
            family == data[1] + 256 * data[2]
        IN  /\ (Len(data) >= 8 /\ family = AF_INET) =>
                  /\ IsSome(locals.event_data)
                  /\ Unwrap(locals.event_data).attempt.kind = "Network"
                  /\ Unwrap(locals.event_data).attempt.target =
                         [tag |-> "Network",
                          val |-> << <<data[5], data[6], data[7], data[8]>>,
                                     256 * data[3] + data[4] >>]
                  /\ behavior_profile.unique_destinations = 1
                  /\ Len(responses) = 1
                  /\ responses[1].id = r.id
            /\ (Len(data) >= 2 /\ family \notin {AF_INET, AF_INET6}) =>
                  /\ locals.event_data = None
                  /\ behavior_profile = NewBehaviorProfile
                  /\ evaluated = <<>>
                  /\ responses = << [id |-> r.id, val |-> 0, error |-> 0,
                                     flags |-> SECCOMP_USER_NOTIF_FLAG_CONTINUE] >>

\* scenario S2: bytes 02 00 01 BB 5D B8 D8 22 give 93.184.216.34, port 443
C22_Witness ==
    /\ call.op = "handle_notification"
    /\ fully_readable(call.arg)
    /\ SubSeq(call.arg.notif.mem.bytes, 1, 8) = <<2, 0, 1, 187, 93, 184, 216, 34>>
    /\ call.arg.notif.addrlen = Length(16)
    /\ IsSome(locals.event_data)
    /\ Unwrap(locals.event_data).attempt.target.val = << <<93, 184, 216, 34>>, 443 >>
    /\ Len(responses) = 1

\* a step of the pre_exec closure failed
bootstrap_failed ==
    /\ boot # <<>>
    /\ boot[Len(boot)] = "failed"
    /\ Len(boot) <= Len(pre_exec_steps)

\* C23: when a step of the child's bootstrap fails before exec, Monitor::run
\* completes all the same: what it returns is a session report, with no live
\* event in it, and not an error.
C23_BootstrapFailureEmptySession ==
    (bootstrap_failed /\ pc = "returned") => (result = "Ok" /\ evaluated = <<>>)

\* C23 (amended): when a step of the child's bootstrap fails before exec,
\* Command::spawn reaps the child and returns the error, and Monitor::run
\* returns it at once: no report, no event evaluated, no notification
\* received, the supervisor loop never entered.
C23_BootstrapFailureIsError ==
    (bootstrap_failed /\ pc # "spawning") =>
        /\ pc = "returned"
        /\ result = "Err"
        /\ tasks.child.st = "exited"
        /\ evaluated = <<>>
        /\ received = <<>>

\* the sandbox was set up, the seccomp filter could not be installed, and
\* Monitor::run has returned
C23_Witness ==
    /\ bootstrap_failed
    /\ in_seq("landlock", boot)
    /\ ~in_seq("seccomp", boot)
    /\ pc = "returned"
    /\ result = "Err"

\* C24: failing to receive the notify descriptor is fatal for the session:
\* Monitor::run never stands in its supervising loop without holding the
\* notify descriptor of the child it spawned.
C24_NoSupervisionWithoutDescriptor ==
    pc \in LoopPcs => "parent" \in notify_fd

\* ------------------------------------------------------------------------
\* The descriptor handoff: which process holds the socketpair ends rx and
\* tx and the seccomp notify descriptor (Monitor::spawn_process, the
\* pre_exec closure, syscalls::send_fd and recv_fd, Monitor::run)
\* ------------------------------------------------------------------------
InitHandoff ==
    /\ sacred_zones = SessionZones
    /\ config = DefaultConfig
    /\ request \in Requests
    /\ context = [prefix_root |-> PrefixRoot, trust_tier |-> request.trust_tier]
    /\ NewEngine
    /\ NotStarted
    /\ NewCopyOnWrite
    /\ NoSocketpair
    /\ NoHistory
    /\ NotServing
    /\ NoDnsCapture
    /\ NoTrustStore
    /\ NoParser

\* what no step of the handoff touches
handoff_frame ==
    UNCHANGED <<evars, cowvars, request, notify_fd, pending, next_id, req, locals,
                received, responses, evaluated, aux_budget, history, daemon, dns, trust_store, parser>>

\* socketpair(Unix, Datagram, None, SockFlag::empty()) and the fork inside
\* Command::spawn: the child starts with a copy of both ends
HandoffSpawn ==
    /\ pc = "start"
    /\ ~request.no_run
    /\ \/ /\ pc' = "spawning"
          /\ fds' = [parent |-> {"rx", "tx"}, child |-> {"rx", "tx"}, queued |-> {}]
          /\ tasks' = [tasks EXCEPT !.child = [st |-> "pre_exec", nid |-> 0]]
          /\ UNCHANGED result
       \/ /\ pc' = "returned"              \* socketpair failed
          /\ result' = "Err"
          /\ UNCHANGED <<fds, tasks>>
    /\ UNCHANGED boot
    /\ handoff_frame

\* `if !request.no_run` not taken: no child, no descriptor
HandoffNoRun ==
    /\ pc = "start"
    /\ request.no_run
    /\ pc' = "supervising"
    /\ UNCHANGED <<fds, tasks, boot, result>>
    /\ handoff_frame

\* the child completes the next step of the closure: install_seccomp_filter
\* returns the notify descriptor, send_fd queues it on tx, close(notify_fd)
\* closes the child's copy; the closure ends without closing rx or tx
HandoffPreExecStep ==
    /\ tasks.child.st = "pre_exec"
    /\ Len(boot) < Len(pre_exec_steps)
    /\ ~failed(next_step)
    /\ boot' = Append(boot, next_step)
    /\ fds' = CASE next_step = "seccomp" ->
                     [fds EXCEPT !.child = @ \cup {"notify"}]
                [] next_step = "send_fd" ->
                     [fds EXCEPT !.queued = @ \cup {"notify"}]
                [] next_step = "close" ->
                     [fds EXCEPT !.child = @ \ {"notify"}]
                [] OTHER -> fds
    /\ UNCHANGED <<pc, tasks, result>>
    /\ handoff_frame

\* the next step fails: the child exits, which closes what it holds
HandoffPreExecFail ==
    /\ tasks.child.st = "pre_exec"
    /\ Len(boot) < Len(pre_exec_steps)
    /\ next_step \in fallible
    /\ ~succeeds(next_step)
    /\ boot' = Append(boot, "failed")
    /\ tasks' = [tasks EXCEPT !.child = [st |-> "aborted", nid |-> 0]]
    /\ fds' = [fds EXCEPT !.child = {}]
    /\ UNCHANGED <<pc, result>>
    /\ handoff_frame

\* exec: no descriptor of the child is close-on-exec, the target keeps them
\* all; or exec fails and the child exits
HandoffExec ==
    /\ tasks.child.st = "pre_exec"
    /\ boot = pre_exec_steps
    /\ \/ /\ boot' = Append(boot, "exec")
          /\ tasks' = [tasks EXCEPT !.child = [st |-> "running", nid |-> 0]]
          /\ UNCHANGED fds
       \/ /\ boot' = Append(boot, "failed")
          /\ tasks' = [tasks EXCEPT !.child = [st |-> "aborted", nid |-> 0]]
          /\ fds' = [fds EXCEPT !.child = {}]
    /\ UNCHANGED <<pc, result>>
    /\ handoff_frame

\* Command::spawn and spawn_process return: cmd, whose closure owns tx, is
\* dropped; on Err rx is dropped as well
HandoffSpawnReturn ==
    /\ pc = "spawning"
    /\ \/ /\ in_seq("exec", boot)
          /\ pc' = "recv_fd"
          /\ fds' = [fds EXCEPT !.parent = @ \ {"tx"}]
          /\ UNCHANGED <<tasks, result>>
       \/ /\ tasks.child.st = "aborted"
          /\ tasks' = [tasks EXCEPT !.child = [st |-> "exited", nid |-> 0]]
          /\ fds' = [parent |-> {}, child |-> {}, queued |-> {}]
          /\ pc' = "returned"
          /\ result' = "Err"
    /\ UNCHANGED boot
    /\ handoff_frame

\* syscalls::recv_fd(rx) and the drop of rx: the queued message is taken,
\* with its descriptor or, on an error, without; with nothing queued recvmsg
\* waits as long as a send end is open
HandoffRecvFd ==
    /\ pc = "recv_fd"
    /\ \/ /\ "notify" \in fds.queued
          /\ fds' = [fds EXCEPT !.parent = (@ \cup {"notify"}) \ {"rx"}, !.queued = {}]
       \/ /\ "notify" \in fds.queued
          /\ fds' = [fds EXCEPT !.parent = @ \ {"rx"}, !.queued = {}]
       \/ /\ fds.queued = {}
          /\ "tx" \notin fds.child
          /\ fds' = [fds EXCEPT !.parent = @ \ {"rx"}]
    /\ pc' = "supervising"
    /\ UNCHANGED <<tasks, boot, result>>
    /\ handoff_frame

\* the target calls recvmsg on the receive end it inherited
HandoffTargetRecv ==
    /\ tasks.child.st = "running"
    /\ "rx" \in fds.child
    /\ "notify" \in fds.queued
    /\ fds' = [fds EXCEPT !.child = @ \cup {"notify"}, !.queued = {}]
    /\ UNCHANGED <<pc, tasks, boot, result>>
    /\ handoff_frame

\* the target exits
HandoffTargetExit ==
    /\ tasks.child.st = "running"
    /\ tasks' = [tasks EXCEPT !.child = [st |-> "exited", nid |-> 0]]
    /\ fds' = [fds EXCEPT !.child = {}]
    /\ UNCHANGED <<pc, boot, result>>
    /\ handoff_frame

\* Monitor::run returns, with a report once the child is gone or with an
\* error of HandlerContext::new, FsWatcher::new, try_wait or the event log;
\* seccomp_fd is dropped
HandoffReturn ==
    /\ pc = "supervising"
    /\ \/ /\ tasks.child.st \in {"none", "exited"}
          /\ result' = "Ok"
       \/ result' = "Err"
    /\ pc' = "returned"
    /\ fds' = [fds EXCEPT !.parent = {}]
    /\ UNCHANGED <<tasks, boot>>
    /\ handoff_frame

NextHandoff ==
    \/ HandoffSpawn \/ HandoffNoRun \/ HandoffPreExecStep \/ HandoffPreExecFail
    \/ HandoffExec \/ HandoffSpawnReturn \/ HandoffRecvFd \/ HandoffTargetRecv
    \/ HandoffTargetExit \/ HandoffReturn

SpecHandoff == InitHandoff /\ [][NextHandoff]_vars

target_runs == in_seq("exec", boot) /\ tasks.child.st = "running"

\* C25: the notify descriptor belongs to the supervisor alone: the child has
\* closed its copy when the target runs, from the handoff on no process but
\* the parent holds it, and the parent holds it no more once Monitor::run
\* has returned.
C25_NotifyDescriptorExclusive ==
    /\ target_runs => "notify" \notin fds.child
    /\ pc = "supervising" => ("notify" \notin fds.child /\ "notify" \notin fds.queued)
    /\ pc = "returned" => "notify" \notin fds.parent

\* C26: the parent's send end is closed when the child has executed the
\* target, the running target holds neither end of the socketpair, and the
\* parent holds the receive end no longer once it holds the notify
\* descriptor.
C26_SocketpairEndsClosed ==
    /\ in_seq("exec", boot) => "tx" \notin fds.parent
    /\ target_runs => fds.child \cap {"rx", "tx"} = {}
    /\ "notify" \in fds.parent => "rx" \notin fds.parent

\* ------------------------------------------------------------------------
\* Landlock (monitor/src/sandbox.rs).  The ruleset is built with the landlock
\* crate's default compatibility level, best effort: on a kernel without
\* Landlock create and add_rule do nothing and succeed, and restrict_self
\* reports RulesetStatus::NotEnforced.
\* ------------------------------------------------------------------------
MaxRulePaths == 3   \* paths apply_landlock_sandbox goes through

\* what happens to one path: it does not exist, File::open fails, the rule is
\* added, the rule is refused (RulesetError::AddRules), another error
PathOutcomes == {"missing", "unopenable", "added", "AddRules", "other"}

\* add_rule, called for the paths that exist
add_rule(kernel_supported, outcome) ==
    CASE outcome = "unopenable" -> "Ok"
      [] ~kernel_supported -> "Ok"
      [] outcome = "added" -> "Ok"
      [] outcome = "AddRules" -> "Ok"
      [] outcome = "other" -> "Err"

\* the rule additions in order, stopping at the first error
RECURSIVE add_rules(_, _, _)
add_rules(kernel_supported, outcomes, i) ==
    IF i > Len(outcomes) THEN "Ok"
    ELSE IF outcomes[i] = "missing" THEN add_rules(kernel_supported, outcomes, i + 1)
    ELSE IF add_rule(kernel_supported, outcomes[i]) = "Err" THEN "Err"
    ELSE add_rules(kernel_supported, outcomes, i + 1)

\* RestrictionStatus.ruleset of a successful restrict_self
ruleset_status(kernel_supported) ==
    IF kernel_supported THEN "FullyEnforced" ELSE "NotEnforced"

\* apply_landlock_sandbox: its result, and the status restrict_self returned
apply_landlock_sandbox(kernel_supported, create_ok, outcomes, restrict_ok) ==
    IF kernel_supported /\ ~create_ok THEN [ret |-> "Err", status |-> None]
    ELSE IF add_rules(kernel_supported, outcomes, 1) = "Err"
    THEN [ret |-> "Err", status |-> None]
    ELSE IF ~restrict_ok THEN [ret |-> "Err", status |-> None]
    ELSE [ret |-> "Ok", status |-> Some(ruleset_status(kernel_supported))]

LandlockInputs ==
    [kernel_supported : BOOLEAN, create_ok : BOOLEAN,
     outcomes : [1..MaxRulePaths -> PathOutcomes], restrict_ok : BOOLEAN]

InitLandlock ==
    /\ sacred_zones = DefaultZones
    /\ config = DefaultConfig
    /\ context = [prefix_root |-> PrefixRoot, trust_tier |-> "Yellow"]
    /\ behavior_profile = NewBehaviorProfile
    /\ process_tracker = NewProcessTracker
    /\ call \in [op : {"none"}, arg : LandlockInputs]
    /\ decision = None
    /\ request = PlainRequest
    /\ NotStarted
    /\ NewCopyOnWrite
    /\ NoSocketpair
    /\ NoHistory
    /\ NotServing
    /\ NoDnsCapture
    /\ NoTrustStore
    /\ NoParser

ApplyLandlockSandbox ==
    /\ call.op = "none"
    /\ decision' = Some(apply_landlock_sandbox(call.arg.kernel_supported,
                            call.arg.create_ok, call.arg.outcomes, call.arg.restrict_ok))
    /\ call' = [call EXCEPT !.op = "apply_landlock_sandbox"]
    /\ UNCHANGED <<sacred_zones, config, context, behavior_profile, process_tracker,
                   svars, cowvars, hvars>>

SpecLandlock == InitLandlock /\ [][ApplyLandlockSandbox]_vars

\* C28: apply_landlock_sandbox succeeds whatever paths are missing and
\* whatever rules the kernel refuses to add, and returns an error when
\* nothing of the ruleset is enforced because the kernel has no Landlock.
C28_UnenforcedLandlockIsFatal ==
    call.op = "apply_landlock_sandbox" =>
        LET r == Unwrap(decision) IN
        /\ (/\ call.arg.kernel_supported /\ call.arg.create_ok /\ call.arg.restrict_ok
            /\ \A i \in 1..MaxRulePaths : call.arg.outcomes[i] # "other") =>
               r.ret = "Ok"
        /\ ~call.arg.kernel_supported => r.ret = "Err"

\* ------------------------------------------------------------------------
\* Trust score history (policy-engine/src/trust/scoring.rs)
\* ------------------------------------------------------------------------
MaxHistoryRecords == 3   \* record calls made on one history

\* #[derive(Default)]: an empty Vec and max_size 0
DefaultTrustScoreHistory == [entries |-> <<>>, max_size |-> 0]

\* TrustScoreHistory::record; Vec::remove(0) panics on an empty Vec
record(h, score) ==
    IF Len(h.entries) >= h.max_size
    THEN IF h.entries = <<>>
         THEN [panic |-> TRUE, history |-> h]
         ELSE [panic |-> FALSE,
               history |-> [h EXCEPT !.entries = Append(Tail(@), score)]]
    ELSE [panic |-> FALSE, history |-> [h EXCEPT !.entries = Append(@, score)]]

\* the history after n record calls on TrustScoreHistory::new(), n <= 100
recorded_history(n) ==
    [NewTrustScoreHistory EXCEPT
        !.entries = [i \in 1..n |-> NewTrustScore(as_u32(i), <<>>)]]

RecordedSizes == {0, 1, 98, 99, 100}

RecordScores == {NewTrustScore(as_u32(s), <<>>) : s \in {10, 60, 90}}

InitHistory ==
    /\ sacred_zones = DefaultZones
    /\ config = DefaultConfig
    /\ context = [prefix_root |-> PrefixRoot, trust_tier |-> "Yellow"]
    /\ behavior_profile = NewBehaviorProfile
    /\ process_tracker = NewProcessTracker
    /\ call = [op |-> "none", arg |-> <<None, 0>>]
    /\ decision = None
    /\ request = PlainRequest
    /\ NotStarted
    /\ NewCopyOnWrite
    /\ NoSocketpair
    /\ history \in {DefaultTrustScoreHistory} \cup {recorded_history(n) : n \in RecordedSizes}
    /\ NotServing
    /\ NoDnsCapture
    /\ NoTrustStore
    /\ NoParser

\* history.record(score); a panic ends the caller
HistoryRecord ==
    /\ result = "none"
    /\ call.arg[2] < MaxHistoryRecords
    /\ \E score \in RecordScores :
          LET r == record(history, score)
          IN  /\ history' = r.history
              /\ result' = IF r.panic THEN "panic" ELSE result
              /\ call' = [op |-> "record", arg |-> <<Some(score), call.arg[2] + 1>>]
    /\ UNCHANGED <<sacred_zones, config, context, behavior_profile, process_tracker,
                   decision, request, pc, tasks, boot, notify_fd, pending, next_id, req,
                   locals, received, responses, evaluated, aux_budget, cowvars, fds,
                   daemon, dns, trust_store, parser>>

SpecHistory == InitHistory /\ [][HistoryRecord]_vars

\* the last n elements of a sequence, all of it when it is shorter
last_n(s, n) == IF Len(s) <= n THEN s ELSE SubSeq(s, Len(s) - n + 1, Len(s))

\* C29: on a history from new() or from Default every record call succeeds,
\* and afterwards the history holds the scores recorded so far, in insertion
\* order, or the last 100 of them.
C29_HistoryKeepsLast100 ==
    [][call'.op = "record" =>
          /\ result' # "panic"
          /\ Len(history'.entries) <= 100
          /\ history'.entries =
                 last_n(Append(history.entries, Unwrap(call'.arg[1])), 100)]_vars

\* ------------------------------------------------------------------------
\* The daemon (winewarden-daemon/src/ipc.rs, main.rs): serve accepts one
\* connection after the other and handles one request line on each
\* ------------------------------------------------------------------------
MaxConnections == 3   \* connections one run of serve accepts

Ping == [type |-> "Ping", run_ok |-> TRUE]
Status == [type |-> "Status", run_ok |-> TRUE]
\* Run(payload); execute_run succeeds or fails (unreadable executable, ...)
Run(run_ok) == [type |-> "Run", run_ok |-> run_ok]

DaemonRequests == {Ping, Status, Run(TRUE), Run(FALSE)}

\* what read_line and serde_json::from_str make of the line a peer sends
Lines == {[read |-> "eof", request |-> None], [read |-> "malformed", request |-> None]}
             \cup {[read |-> "request", request |-> Some(r)] : r \in DaemonRequests}

\* handle_request: Ok(response) or Err
handle_request(r, active_sessions) ==
    CASE r.type = "Ping" -> Ok([type |-> "Pong"])
      [] r.type = "Status" ->
            Ok([type |-> "Status", active_sessions |-> active_sessions])
      [] r.type = "Run" ->
            IF r.run_ok THEN Ok([type |-> "RunResult"]) ELSE Err

\* handle_connection: Ok(None) at end of input, Err when the line does not
\* parse, when the handler fails or when the response cannot be written,
\* else the response is written and returned
handle_connection(line, active_sessions, write_ok) ==
    IF line.read = "eof" THEN [ret |-> "Ok", response |-> None, written |-> None]
    ELSE IF line.read = "malformed"
    THEN [ret |-> "Err", response |-> None, written |-> None]
    ELSE LET h == handle_request(Unwrap(line.request), active_sessions) IN
         IF h = Err THEN [ret |-> "Err", response |-> None, written |-> None]
         ELSE IF ~write_ok
         THEN [ret |-> "Err", response |-> None, written |-> None]
         ELSE [ret |-> "Ok", response |-> Some(h.path), written |-> Some(h.path)]

InitDaemon ==
    /\ sacred_zones = DefaultZones
    /\ config = DefaultConfig
    /\ context = [prefix_root |-> PrefixRoot, trust_tier |-> "Yellow"]
    /\ NewEngine
    /\ request = PlainRequest
    /\ NotStarted
    /\ NewCopyOnWrite
    /\ NoSocketpair
    /\ NoHistory
    /\ daemon = [st |-> "serving", active_sessions |-> 0, served |-> <<>>]
    /\ NoDnsCapture
    /\ NoTrustStore
    /\ NoParser

\* one iteration of `for stream in listener.incoming()`: check_peer_uid?,
\* handle_connection?, update_state; any Err ends serve, and with it main
ServeConnection ==
    /\ daemon.st = "serving"
    /\ Len(daemon.served) < MaxConnections
    /\ \E authorized \in BOOLEAN, line \in Lines, write_ok \in BOOLEAN :
          LET c == handle_connection(line, daemon.active_sessions, write_ok)
              ran == authorized /\ line.read = "request"
                         /\ Unwrap(line.request) = Run(TRUE)
          IN  daemon' =
                 IF ~authorized
                 THEN [daemon EXCEPT
                          !.st = "failed",
                          !.served = Append(@, [authorized |-> FALSE, line |-> line,
                                                write_ok |-> write_ok,
                                                written |-> None])]
                 ELSE [st |-> IF c.ret = "Err" THEN "failed" ELSE "serving",
                       active_sessions |-> IF ran THEN daemon.active_sessions + 1
                                           ELSE daemon.active_sessions,
                       served |-> Append(daemon.served,
                                         [authorized |-> TRUE, line |-> line,
                                          write_ok |-> write_ok,
                                          written |-> c.written])]
    /\ UNCHANGED <<evars, svars, cowvars, fds, history, dns, trust_store, parser>>

SpecDaemon == InitDaemon /\ [][ServeConnection]_vars

\* C30: every request read from an authorized peer to whom the daemon can
\* write is answered with one response line: Pong, Status or RunResult when
\* it is handled, a structured Error when handling it fails.
C30_EveryRequestAnswered ==
    \A i \in 1..Len(daemon.served) :
        LET c == daemon.served[i] IN
        (c.authorized /\ c.line.read = "request" /\ c.write_ok) =>
            /\ IsSome(c.written)
            /\ Unwrap(c.written).type =
                   CASE Unwrap(c.line.request).type = "Ping" -> "Pong"
                     [] Unwrap(c.line.request).type = "Status" -> "Status"
                     [] Unwrap(c.line.request) = Run(TRUE) -> "RunResult"
                     [] Unwrap(c.line.request) = Run(FALSE) -> "Error"

\* ------------------------------------------------------------------------
\* Monitor::run with every watcher and the replay log in use, enough
\* auxiliary events for one of each source, and a kernel that has one
\* notification id left to give
\* ------------------------------------------------------------------------
MaxOrderAux == 4   \* events the watchers and the replay log deliver in all

OrderRequests ==
    { [PlainRequest EXCEPT
          !.live_monitor =
              Some(LiveMonitorConfig(TRUE, TRUE, TRUE, <<0, DEFAULT_POLL_INTERVAL_MS>>)),
          !.event_log = Some("readable")],
      [PlainRequest EXCEPT !.no_run = TRUE, !.event_log = Some("readable")] }

InitOrder ==
    /\ sacred_zones = SessionZones
    /\ config = DefaultConfig
    /\ request \in OrderRequests
    /\ context = [prefix_root |-> PrefixRoot, trust_tier |-> request.trust_tier]
    /\ NewEngine
    /\ pc = "start"
    /\ tasks = [child |-> NoTask, desc |-> NoTask]
    /\ boot = <<>>
    /\ notify_fd = {}
    /\ pending = {}
    /\ next_id = MaxNotifs
    /\ req = None
    /\ locals = NoLocals
    /\ received = <<>>
    /\ responses = <<>>
    /\ evaluated = <<>>
    /\ aux_budget = MaxOrderAux
    /\ result = "none"
    /\ NewCopyOnWrite
    /\ NoSocketpair
    /\ NoHistory
    /\ NotServing
    /\ NoDnsCapture
    /\ NoTrustStore
    /\ NoParser

SpecOrder == InitOrder /\ [][Next]_vars

\* the position of a step within one iteration of the supervisor loop
rank(p) ==
    CASE p = "loop" -> 0
      [] p \in {"poll", "sleep"} -> 1
      [] p = "recv_notif" -> 2
      [] p = "analyse" -> 3
      [] p = "send" -> 4
      [] p = "drain_fs" -> 5
      [] p = "drain_proc" -> 6
      [] p = "drain_net" -> 7

\* where an event of the report came from
source_of(e) ==
    CASE e.attempt \in FsEvents -> "fs"
      [] e.attempt \in ProcEvents -> "proc"
      [] e.attempt \in NetEvents -> "net"
      [] e.attempt \in ReplayEvents -> "replay"
      [] OTHER -> "seccomp"

MAX_PATH_LEN == 4096
chunk_size == 256

\* the `while offset < max_len` loop of read_null_terminated_string over a
\* string whose terminator is at byte nul and of which the first `mapped`
\* bytes can be read: Err, or the number of bytes it returns
RECURSIVE read_chunks(_, _, _, _, _)
read_chunks(task_alive, nul, mapped, offset, max_len) ==
    IF offset >= max_len THEN [tag |-> "Ok", len |-> offset]
    ELSE LET to_read == IF chunk_size < max_len - offset THEN chunk_size
                        ELSE max_len - offset
             \* read_remote_memory(pid, addr + offset, to_read) is Ok only
             \* when all to_read bytes were read
             chunk_ok == task_alive /\ mapped >= offset + to_read
         IN  IF ~chunk_ok THEN [tag |-> "Err", len |-> 0]
             ELSE IF nul < offset + to_read THEN [tag |-> "Ok", len |-> nul]
             ELSE read_chunks(task_alive, nul, mapped, offset + to_read, max_len)

\* child memory holding the path, a terminator after it, mapped bytes readable
\* from the pointer on
StringMem(path, mapped, utf8) ==
    Mem(<<>>, mapped, path, utf8,
        read_chunks(TRUE, os_str_len(path), mapped, 0, MAX_PATH_LEN).tag = "Ok")

HandlerPaths ==
    SessionPaths \cup {HOME \o <<".ssh">>, HOME \o <<".gnupg", "key">>}

\* how much of the memory at the pointer is mapped: nothing, the string
\* without or with its terminator, up to the end of the first chunk or of
\* the longest path
MappedFrom(path) ==
    {0, os_str_len(path), os_str_len(path) + 1, chunk_size - 1, chunk_size, MAX_PATH_LEN}

FsNotifs ==
    {Notif(1, "child", nr, fd, Length(0), StringMem(p, m, utf8)) :
        nr \in FsSyscalls, fd \in {AT_FDCWD, 3}, utf8 \in BOOLEAN,
        p \in HandlerPaths, m \in UNION {MappedFrom(q) : q \in HandlerPaths}}

InitFsHandler ==
    /\ sacred_zones \in {DefaultZones, SessionZones}
    /\ config = DefaultConfig
    /\ context \in [prefix_root : {PrefixRoot}, trust_tier : {"Yellow"}]
    /\ NewEngine
    /\ request = PlainRequest
    /\ NotStarted
    /\ NewCopyOnWrite
    /\ NoSocketpair
    /\ NoHistory
    /\ NotServing
    /\ NoDnsCapture
    /\ NoTrustStore
    /\ NoParser

\* handle_notification from the receive ioctl to its return
HandleFsNotification ==
    /\ received = <<>>
    /\ \E r \in FsNotifs, at_read \in BOOLEAN, at_send \in BOOLEAN :
          /\ at_send => at_read
          /\ LET a == analyse(r, at_read, handler_mapper, behavior_profile, context,
                              config, sacred_zones)
                 resp == build_response(r.id, a.decision_action, a.path_redirect)
             IN  /\ received' = Append(received, r.id)
                 /\ call' = [op |-> "handle_notification",
                             arg |-> [notif |-> r, at_read |-> at_read,
                                      at_send |-> at_send]]
                 /\ behavior_profile' = a.profile
                 /\ responses' = Append(responses, resp)
                 /\ locals' = [decision_action |-> a.decision_action,
                               path_redirect |-> a.path_redirect,
                               event_data |-> a.event_data, note |-> a.note,
                               resp |-> Some(resp)]
                 /\ decision' = IF IsSome(a.event_data)
                                THEN Some(Unwrap(a.event_data).decision)
                                ELSE None
                 /\ evaluated' = IF at_send /\ IsSome(a.event_data)
                                 THEN Append(evaluated, Unwrap(a.event_data))
                                 ELSE evaluated
    /\ UNCHANGED <<sacred_zones, config, context, process_tracker, request, pc, tasks,
                   boot, notify_fd, pending, next_id, req, aux_budget, result, cowvars, hvars>>

SpecFsHandler == InitFsHandler /\ [][HandleFsNotification]_vars

\* the handler is asked for the path of this notification
reads_path(r) ==
    r.nr \in PathFirst \/ (r.nr \in FsSyscalls \ {SYS_OPENAT2} /\ r.dirfd = AT_FDCWD)

\* C31: when the bytes that can be read at the path pointer are fewer than a
\* bulk read asks for but contain the null terminator (and are UTF-8, the
\* task being alive), the handler recovers the path up to the terminator and
\* the policy engine evaluates it.
C31_ShortReadWithTerminatorInspected ==
    (/\ call.op = "handle_notification"
     /\ reads_path(call.arg.notif)
     /\ call.arg.at_read
     /\ call.arg.notif.mem.utf8
     /\ call.arg.notif.mem.mapped > os_str_len(call.arg.notif.mem.path)
     /\ call.arg.notif.mem.mapped < chunk_size) =>
        /\ IsSome(locals.event_data)
        /\ Unwrap(locals.event_data).attempt.target = PathTarget(call.arg.notif.mem.path)
        /\ Unwrap(locals.event_data).decision =
               evaluate_decision(Unwrap(locals.event_data).attempt, context, config,
                                 sacred_zones)

\* C32: the attempt the handler builds for an intercepted filesystem syscall
\* has kind Write for mkdir and mkdirat and kind Read for the other path
\* syscalls, and an intercepted mkdir is counted in file_modifications.
C32_MkdirIsWrite ==
    (call.op = "handle_notification" /\ IsSome(locals.event_data)) =>
        LET nr == call.arg.notif.nr
            attempt == Unwrap(locals.event_data).attempt
        IN  IF nr \in {SYS_MKDIR, SYS_MKDIRAT}
            THEN attempt.kind = "Write" /\ behavior_profile.file_modifications = 1
            ELSE attempt.kind = "Read" /\ behavior_profile.file_modifications = 0

\* C36: under the default configuration an intercepted access to a path
\* under ${HOME}/.ssh or ${HOME}/.gnupg that the handler could read is
\* evaluated to Deny and answered with EPERM and without CONTINUE.
C36_KeyDirectoriesDenied ==
    (/\ call.op = "handle_notification"
     /\ sacred_zones = DefaultZones
     /\ IsSome(locals.event_data)
     /\ \/ under(call.arg.notif.mem.path, Append(HOME, ".ssh"))
        \/ under(call.arg.notif.mem.path, Append(HOME, ".gnupg"))) =>
        /\ Unwrap(locals.event_data).decision.action.tag = "Deny"
        /\ Unwrap(locals.resp).error = EPERM
        /\ Unwrap(locals.resp).flags = 0

\* ------------------------------------------------------------------------
\* is_shell on its own: every short name over a small alphabet, and the
\* names of the unit test
\* ------------------------------------------------------------------------
MaxShellNameLen == 4   \* characters in a generated process name

ShellChars == {"s", "h", "S", "a", "/"}

ShellInputs ==
    SeqsUpTo(ShellChars, MaxShellNameLen)
        \cup { <<"/","b","i","n","/","b","a","s","h">>,
               <<"p","o","w","e","r","s","h","e","l","l",".","e","x","e">>,
               <<"c","m","d",".","e","x","e">>,
               <<"B","a","s","h",".","E","X","E">>,
               <<"w","i","n","e">>,
               <<"n","o","t","e","p","a","d",".","e","x","e">>,
               <<"d","i","s","h","o","n","o","r","e","d",".","e","x","e">> }

InitShell ==
    /\ sacred_zones = DefaultZones
    /\ config = DefaultConfig
    /\ context = [prefix_root |-> PrefixRoot, trust_tier |-> "Yellow"]
    /\ behavior_profile = NewBehaviorProfile
    /\ process_tracker = NewProcessTracker
    /\ \E name \in ShellInputs : call = [op |-> "none", arg |-> name]
    /\ decision = None
    /\ request = PlainRequest
    /\ NotStarted
    /\ NewCopyOnWrite
    /\ NoSocketpair
    /\ NoHistory
    /\ NotServing
    /\ NoDnsCapture
    /\ NoTrustStore
    /\ NoParser

\* one call of is_shell
IsShell ==
    /\ call.op = "none"
    /\ decision' = Some(is_shell(call.arg))
    /\ call' = [call EXCEPT !.op = "is_shell"]
    /\ UNCHANGED <<sacred_zones, config, context, behavior_profile, process_tracker, svars, cowvars, hvars>>

SpecShell == InitShell /\ [][IsShell]_vars

\* the part of a name after its last separator
final_component(name) ==
    LET seps == {i \in 1..Len(name) : name[i] = "/"}
        last == IF seps = {} THEN 0 ELSE CHOOSE i \in seps : \A j \in seps : j <= i
    IN  SubSeq(name, last + 1, Len(name))

\* the final component is a known shell name, whatever the case, with or
\* without an ".exe" suffix
known_shell(name) ==
    LET base == to_lowercase(final_component(name))
        exe == <<".", "e", "x", "e">>
        stem == IF str_ends_with(base, exe) THEN SubSeq(base, 1, Len(base) - 4) ELSE base
    IN  \E i \in 1..Len(shell_names) : base = shell_names[i] \/ stem = shell_names[i]

\* C33: is_shell(name) is true only when the final path component of name,
\* compared case-insensitively and with or without an executable suffix, is
\* one of the known shell names.
C33_ShellOnlyByName ==
    (call.op = "is_shell" /\ Unwrap(decision)) => known_shell(call.arg)

\* ------------------------------------------------------------------------
\* DnsCapture (net-compat/src/dns.rs): record_query and record_response on
\* captures built by with_capacity and by Default
\* ------------------------------------------------------------------------
MaxDnsCalls == 4   \* calls made on one capture

\* DnsCapture::with_capacity(max_entries)
with_capacity(max_entries) == [queries |-> <<>>, max_entries |-> max_entries, now |-> 0]

\* #[derive(Default)] on DnsCapture: an empty map and max_entries 0
DefaultDnsCapture == [queries |-> <<>>, max_entries |-> 0, now |-> 0]

\* normalize_domain: trim_end_matches('.') and to_lowercase
RECURSIVE trim_end_dots(_)
trim_end_dots(d) ==
    IF d # <<>> /\ d[Len(d)] = "." THEN trim_end_dots(SubSeq(d, 1, Len(d) - 1)) ELSE d

normalize_domain(domain) == to_lowercase(trim_end_dots(domain))

\* the key evict_oldest removes: the one with the least last_seen
oldest(queries) ==
    CHOOSE k \in DOMAIN queries :
        \A j \in DOMAIN queries : queries[k].last_seen <= queries[j].last_seen

evict_oldest(queries) ==
    IF DOMAIN queries = {} THEN queries
    ELSE [k \in (DOMAIN queries) \ {oldest(queries)} |-> queries[k]]

\* HashMap::insert, and the update of an entry through get_mut
map_insert(queries, key, obs) ==
    [k \in (DOMAIN queries) \cup {key} |-> IF k = key THEN obs ELSE queries[k]]

\* DnsCapture::record_query; every reading of Instant::now() is later than
\* the one before
record_query(c, query) ==
    LET q == normalize_domain(query)
        t == c.now + 1
    IN  IF q \in DOMAIN c.queries THEN
            [c EXCEPT !.now = t,
                      !.queries = map_insert(c.queries, q,
                                      [c.queries[q] EXCEPT !.last_seen = t])]
        ELSE
            LET kept == IF Cardinality(DOMAIN c.queries) >= c.max_entries
                        THEN evict_oldest(c.queries) ELSE c.queries
            IN  [c EXCEPT !.now = t,
                          !.queries = map_insert(kept, q,
                                          [last_seen |-> t, resolved |-> FALSE])]

\* DnsCapture::record_response with a non-empty list of addresses: an entry
\* that exists is updated by record_resolved, one that does not is created
\* and inserted, max_entries not being looked at
record_response(c, query) ==
    LET q == normalize_domain(query)
        t == c.now + 1
    IN  [c EXCEPT !.now = t,
                  !.queries = map_insert(c.queries, q,
                                  [last_seen |-> t, resolved |-> TRUE])]

DnsDomains == {<<"a">>, <<"A", ".">>, <<"b">>, <<"c">>}

InitDns ==
    /\ sacred_zones = DefaultZones
    /\ config = DefaultConfig
    /\ context = [prefix_root |-> PrefixRoot, trust_tier |-> "Yellow"]
    /\ behavior_profile = NewBehaviorProfile
    /\ process_tracker = NewProcessTracker
    /\ call = [op |-> "none", arg |-> <<>>]
    /\ decision = None
    /\ request = PlainRequest
    /\ NotStarted
    /\ NewCopyOnWrite
    /\ NoSocketpair
    /\ NoHistory
    /\ NotServing
    /\ dns \in {with_capacity(1), with_capacity(2), DefaultDnsCapture}
    /\ NoTrustStore
    /\ NoParser

\* capture.record_query(domain); call.arg keeps the calls made so far
RecordQuery ==
    /\ Len(call.arg) < MaxDnsCalls
    /\ \E domain \in DnsDomains :
          /\ dns' = record_query(dns, domain)
          /\ call' = [op |-> "record_query",
                      arg |-> Append(call.arg, <<"record_query", domain>>)]
    /\ UNCHANGED <<sacred_zones, config, context, behavior_profile, process_tracker,
                   decision, svars, cowvars, fds, history, daemon, trust_store, parser>>

\* capture.record_response(domain, ips)
RecordResponse ==
    /\ Len(call.arg) < MaxDnsCalls
    /\ \E domain \in DnsDomains :
          /\ dns' = record_response(dns, domain)
          /\ call' = [op |-> "record_response",
                      arg |-> Append(call.arg, <<"record_response", domain>>)]
    /\ UNCHANGED <<sacred_zones, config, context, behavior_profile, process_tracker,
                   decision, svars, cowvars, fds, history, daemon, trust_store, parser>>

NextDns == RecordQuery \/ RecordResponse

SpecDns == InitDns /\ [][NextDns]_vars

\* C34: a capture created with capacity N >= 1 tracks at most N domains after
\* any sequence of record_query and record_response calls, and a
\* record_query of a new domain at capacity removes the entry with the oldest
\* last_seen.
C34_CapacityBound ==
    /\ [](dns.max_entries >= 1 => Cardinality(DOMAIN dns.queries) <= dns.max_entries)
    /\ [][(/\ dns.max_entries >= 1
           /\ call'.op = "record_query"
           /\ Cardinality(DOMAIN dns.queries) = dns.max_entries
           /\ DOMAIN dns'.queries # DOMAIN dns.queries) =>
              (DOMAIN dns.queries) \ (DOMAIN dns'.queries) = {oldest(dns.queries)}]_vars

\* what a capture holds after the calls of a log, in order
RECURSIVE replay(_, _)
replay(c, calls) ==
    IF calls = <<>> THEN c
    ELSE LET before == replay(c, SubSeq(calls, 1, Len(calls) - 1))
             last == calls[Len(calls)]
         IN  IF last[1] = "record_query" THEN record_query(before, last[2])
             ELSE record_response(before, last[2])

\* the calls are record_query calls on pairwise distinct domains
distinct_queries(calls) ==
    /\ \A i \in 1..Len(calls) : calls[i][1] = "record_query"
    /\ \A i, j \in 1..Len(calls) :
          i # j => normalize_domain(calls[i][2]) # normalize_domain(calls[j][2])

\* C40: after record_query calls on distinct domains, fewer than 1000 of
\* them, a capture obtained through Default tracks the same domains as one
\* obtained through DnsCapture::new() after the same calls.
C40_DefaultLikeNew ==
    (dns.max_entries = DefaultDnsCapture.max_entries /\ distinct_queries(call.arg)) =>
        DOMAIN dns.queries = DOMAIN replay(NewDnsCapture, call.arg).queries

\* ------------------------------------------------------------------------
\* parse_packet (net-compat/src/dns_parser.rs) on packets whose answer,
\* authority and additional counts are 0; one step per iteration of the
\* loop of parse_name
\* ------------------------------------------------------------------------
MaxBodyLen == 4   \* bytes after the 12-byte header
MaxNameParts == 6   \* labels a name is followed for

\* data[i] of a Rust slice
at(data, i) == data[i + 1]

be16(hi, lo) == hi * 256 + lo

\* label lengths 0 and 1, offsets 12 and 14, and the pointer byte 0xC0
BodyBytes == {0, 1, 12, 14, 192}

Header(qdcount) == <<0, 0, 1, 0, 0, qdcount, 0, 0, 0, 0, 0, 0>>

Packets ==
    {<<>>, <<0, 0, 1, 0, 0, 1>>}
        \cup {Header(n) \o body : n \in 0..2, body \in SeqsUpTo(BodyBytes, MaxBodyLen)}

InitParser ==
    /\ sacred_zones = DefaultZones
    /\ config = DefaultConfig
    /\ context = [prefix_root |-> PrefixRoot, trust_tier |-> "Yellow"]
    /\ NewEngine
    /\ request = PlainRequest
    /\ NotStarted
    /\ NewCopyOnWrite
    /\ NoSocketpair
    /\ NoHistory
    /\ NotServing
    /\ NoDnsCapture
    /\ NoTrustStore
    /\ parser \in {IdleParser(data) : data \in Packets}

parser_frame == UNCHANGED <<evars, svars, cowvars, fds, history, daemon, dns, trust_store>>

\* parse_packet up to its first question: the length test and parse_header
ParsePacket ==
    /\ parser.st = "idle"
    /\ parser' = IF Len(parser.data) < 12
                 THEN [parser EXCEPT !.st = "done", !.ret = "Err(TooShort)"]
                 ELSE [parser EXCEPT !.st = "questions", !.offset = 12,
                                     !.left = be16(at(parser.data, 4), at(parser.data, 5))]
    /\ parser_frame

\* `for _ in 0..header.qdcount`: the next question calls parse_name; after
\* the last one the three record loops run no iteration and the packet is
\* returned
ParseQuestion ==
    /\ parser.st = "questions"
    /\ parser' = IF parser.left = 0
                 THEN [parser EXCEPT !.st = "done", !.ret = "Ok"]
                 ELSE [parser EXCEPT !.st = "name", !.pos = parser.offset,
                                     !.jumped = FALSE, !.jump_offset = parser.offset,
                                     !.name_parts = <<>>]
    /\ parser_frame

Failed(ret) == [parser EXCEPT !.st = "done", !.ret = ret]

\* the rest of parse_question once parse_name has returned (name, pos)
question_after_name(name_parts, pos) ==
    IF pos + 4 > Len(parser.data) THEN Failed("Err(Truncated)")
    ELSE [parser EXCEPT !.st = "questions",
                        !.questions = Append(parser.questions, name_parts),
                        !.name_parts = <<>>,
                        !.offset = pos + 4,
                        !.left = parser.left - 1]

\* one iteration of the `loop` of parse_name
parse_name_step ==
    LET data == parser.data
        pos == parser.pos
    IN  IF pos >= Len(data) THEN Failed("Err(Truncated)")
        ELSE LET label_len == at(data, pos) IN
             IF label_len >= 192 THEN      \* label_len & 0xC0 == 0xC0
                 IF pos + 1 >= Len(data) THEN Failed("Err(Truncated)")
                 ELSE LET pointer == be16(label_len % 64, at(data, pos + 1)) IN
                      IF pointer >= Len(data) THEN Failed("Err(InvalidPointer)")
                      ELSE [parser EXCEPT
                                !.jump_offset = IF ~parser.jumped THEN pos + 2 ELSE @,
                                !.pos = pointer,
                                !.jumped = TRUE]
             ELSE IF label_len = 0 THEN
                 question_after_name(parser.name_parts,
                     IF parser.jumped THEN parser.jump_offset ELSE pos + 1)
             ELSE IF pos + 1 + label_len > Len(data) THEN Failed("Err(Truncated)")
             ELSE [parser EXCEPT
                       !.name_parts = Append(@, SubSeq(data, pos + 2, pos + 1 + label_len)),
                       !.pos = pos + 1 + label_len]

ParseNameStep ==
    /\ parser.st = "name"
    /\ Len(parser.name_parts) < MaxNameParts
    /\ parser' = parse_name_step
    /\ parser_frame

NextParser == ParsePacket \/ ParseQuestion \/ ParseNameStep

SpecParser == InitParser /\ [][NextParser]_vars

\* the caller's thread runs parse_packet on
FairSpecParser == SpecParser /\ WF_vars(NextParser)

\* C35: parse_packet returns, with a packet or a ParseError, whatever the
\* bytes, names whose compression pointers point at themselves or form a
\* cycle included.
C35_ParsePacketTerminates == <>(parser.st = "done" /\ parser.ret # "none")

\* ------------------------------------------------------------------------
\* The trust database across `winewarden trust set` and `winewarden run`
\* (winewarden-cli/src/commands/run.rs, trust.rs; winewarden-core/src/store.rs)
\* ------------------------------------------------------------------------
MaxTrustSteps == 3   \* trust set and run commands in one history

Executables == {"game", "tool"}

\* config.trust.default_tier of Config::default_config()
default_tier == "Yellow"

downgrade_tier(tier) ==
    CASE tier = "Green" -> "Yellow"
      [] tier = "Yellow" -> "Red"
      [] tier = "Red" -> "Red"

\* TrustStore::get_tier
get_tier(store, sha256) ==
    IF sha256 \in DOMAIN store.records THEN Some(store.records[sha256].tier) ELSE None

\* the entry `records.entry(sha256).or_insert(TrustRecord {tier, runs: 0, ..})` yields
or_insert(store, sha256, tier) ==
    IF sha256 \in DOMAIN store.records THEN store.records[sha256]
    ELSE [tier |-> tier, runs |-> 0]

with_record(store, sha256, rec) ==
    [records |-> [k \in (DOMAIN store.records) \cup {sha256} |->
                      IF k = sha256 THEN rec ELSE store.records[k]]]

\* TrustStore::set_tier
set_tier(store, sha256, tier) ==
    with_record(store, sha256, [or_insert(store, sha256, tier) EXCEPT !.tier = tier])

\* TrustStore::record_run
record_run(store, sha256, tier) ==
    LET entry == or_insert(store, sha256, tier)
    IN  with_record(store, sha256, [entry EXCEPT !.runs = @ + 1, !.tier = tier])

\* the tier commands::run::execute hands to Monitor::run
run_tier(store, sha256, trust_override, pirate_safe) ==
    LET base_tier == IF IsSome(trust_override) THEN Unwrap(trust_override)
                     ELSE unwrap_or_else(get_tier(store, sha256), default_tier)
    IN  IF pirate_safe THEN downgrade_tier(base_tier) ELSE base_tier

\* call.arg: the tier last given to `trust set` for each executable, the
\* number of commands so far, and the inputs and the tier of the last run
NoCommands ==
    [set |-> [e \in Executables |-> None], steps |-> 0, exe |-> "game",
     pirate_safe |-> FALSE, trust_override |-> None, run_ok |-> FALSE, tier |-> default_tier]

InitTrust ==
    /\ sacred_zones = DefaultZones
    /\ config = DefaultConfig
    /\ context = [prefix_root |-> PrefixRoot, trust_tier |-> "Yellow"]
    /\ behavior_profile = NewBehaviorProfile
    /\ process_tracker = NewProcessTracker
    /\ call = [op |-> "none", arg |-> NoCommands]
    /\ decision = None
    /\ request = PlainRequest
    /\ NotStarted
    /\ NewCopyOnWrite
    /\ NoSocketpair
    /\ NoHistory
    /\ NotServing
    /\ NoDnsCapture
    /\ NoTrustStore
    /\ NoParser

trust_frame ==
    UNCHANGED <<sacred_zones, config, context, behavior_profile, process_tracker,
                decision, svars, cowvars, fds, history, daemon, dns, parser>>

\* winewarden trust set <executable> <tier>
TrustSet ==
    /\ call.arg.steps < MaxTrustSteps
    /\ \E exe \in Executables, tier \in TrustTiers :
          /\ trust_store' = set_tier(trust_store, exe, tier)
          /\ call' = [op |-> "trust_set",
                      arg |-> [call.arg EXCEPT !.set[exe] = Some(tier), !.steps = @ + 1,
                                               !.exe = exe]]
    /\ trust_frame

\* winewarden run: the tier is worked out, Monitor::run runs, and when it
\* returned Ok the run is recorded and the database saved
RunExecutable ==
    /\ call.arg.steps < MaxTrustSteps
    /\ \E exe \in Executables, pirate_safe \in BOOLEAN, run_ok \in BOOLEAN,
          trust_override \in {None} \cup {Some(t) : t \in TrustTiers} :
          LET tier == run_tier(trust_store, exe, trust_override, pirate_safe) IN
          /\ trust_store' = IF run_ok THEN record_run(trust_store, exe, tier)
                            ELSE trust_store
          /\ call' = [op |-> "run",
                      arg |-> [call.arg EXCEPT !.steps = @ + 1, !.exe = exe,
                                               !.pirate_safe = pirate_safe,
                                               !.trust_override = trust_override,
                                               !.run_ok = run_ok, !.tier = tier]]
    /\ trust_frame

NextTrust == TrustSet \/ RunExecutable

SpecTrust == InitTrust /\ [][NextTrust]_vars

\* the tier last set for an executable by trust set, else the configured default
tier_set(exe) == unwrap_or_else(call.arg.set[exe], default_tier)

\* C37: a run with the pirate-safe option and no trust override uses the tier
\* one step stricter than the tier last set for the executable (by trust
\* set, else the configured default), and no run, with or without a
\* --trust override, changes the tier stored for an executable that has one
\* set.
C37_RunsKeepStoredTier ==
    /\ (call.op = "run" /\ call.arg.pirate_safe /\ call.arg.trust_override = None) =>
           call.arg.tier = downgrade_tier(tier_set(call.arg.exe))
    /\ \A exe \in Executables :
           IsSome(call.arg.set[exe]) => get_tier(trust_store, exe) = call.arg.set[exe]

\* a connection from a peer with another EUID, with a request line that does
\* not parse, or whose request handler fails
bad_connection(c) ==
    \/ ~c.authorized
    \/ c.line.read = "malformed"
    \/ (c.line.read = "request" /\ Unwrap(c.line.request) = Run(FALSE))

\* C38: after a connection that is rejected for its peer's EUID, that carries
\* a malformed request line or whose handler fails, the daemon is still in
\* its serve loop, accepting the next connection.
C38_BadConnectionKeepsServing ==
    (\E i \in 1..Len(daemon.served) : bad_connection(daemon.served[i])) =>
        daemon.st = "serving"

\* the decision was produced by one of the sacred zones
by_sacred_zone(d) ==
    \E i \in 1..Len(sacred_zones) : d.zone_label = Some(sacred_zones[i].label)

\* C39: every evaluation whose decision comes from a sacred zone with action
\* Deny, Redirect or Virtualize adds one to sensitive_path_attempts, and no
\* other evaluation changes it.
C39_SacredZoneAccessesCounted ==
    [][behavior_profile'.sensitive_path_attempts =
          behavior_profile.sensitive_path_attempts +
              (IF /\ call'.op = "evaluate"
                  /\ by_sacred_zone(Unwrap(decision'))
                  /\ Unwrap(decision').action.tag \in {"Deny", "Redirect", "Virtualize"}
               THEN 1 ELSE 0)]_vars
====
